---- MODULE Spec2Model ----
(***************************************************************************)
(* Incremental analyzer engine of the UEBA service: windowing of          *)
(* normalized events into UTC calendar days, the extraction / rule /      *)
(* scoring pipeline, the per-entity baseline with its per-run cache, the  *)
(* checkpoint-driven run_once / run_forever driver and the upsert into    *)
(* entity_risk_history.                                                    *)
(*                                                                         *)
(* Instants are integers counted in ticks; TicksPerDay ticks make one UTC *)
(* day, so tick t lies in the day that starts at t - (t % TicksPerDay).   *)
(* Risk scores are integers: SimpleScoring adds 2*count, (severity/10)*30  *)
(* and 30*rules in double precision, and the sum is the integer           *)
(* 2*count + 3*severity + 30*rules exactly for every severity the events  *)
(* of the service carry; where the double is not an integer its distance  *)
(* from the integer is kept apart, in units of 2^-46.  The baseline       *)
(* average and variance are kept as reduced fractions, so that equal      *)
(* baselines are equal values and the anomaly test is exact.              *)
(***************************************************************************)
EXTENDS Integers, Sequences, FiniteSets, TLC

\* ------------------------------------------------------------------ bounds
\* The current UTC day, counted from the day of the first event of the pool.
NumDays == 2
\* Invocations of run_once (one-shot runs and daemon ticks together).
MaxRuns == 2

\* ------------------------------------------------------------- constants
\* Python's None, for every optional integer (entity, instant, severity).
None == -1
\* Ticks of one UTC day: timedelta(days=1).
TicksPerDay == 2
\* BaselineCalculator.window_days (UEBA_BASELINE_WINDOW_DAYS); the run is
\* configured with a window of one day so that the lower bound of the baseline
\* window falls inside the modelled calendar.
window_days == 1
\* BaselineCalculator.sigma_multiplier (UEBA_SIGMA_MULTIPLIER, default 3.0).
sigma_multiplier == 3
REASON_GENERATOR == "analyzer_service"
REASON_KIND == "daily_rollup"

Entities == {1, 2}
Inst == {1, 2}

\* The database DATABASE_URL selects: SQLite (the default URL) or a server
\* database such as PostgreSQL.
Dialects == {"sqlite", "postgresql"}
\* Whether the database has the aggregate func.stddev_pop renders to.  SQLite
\* has avg() but no stddev_pop(): the statement fails with OperationalError
\* ("no such function: stddev_pop") whatever rows the table holds.
HasStddevPop(dialect) == dialect # "sqlite"

\* ------------------------------------------------------------- utilities
Max(a, b) == IF a >= b THEN a ELSE b
Min(a, b) == IF a <= b THEN a ELSE b
Abs(a) == IF a < 0 THEN -a ELSE a

RECURSIVE Gcd(_, _)
Gcd(a, b) == IF b = 0 THEN a ELSE Gcd(b, a % b)

\* The fraction n/d (d > 0) in lowest terms, as <<numerator, denominator>>.
Frac(n, d) ==
    LET g == Gcd(Abs(n), d)
    IN  IF g = 0 THEN <<0, 1>> ELSE <<n \div g, d \div g>>

RECURSIVE SumOf(_, _)
\* Sum of f[x] over the finite set S.
SumOf(f, S) ==
    IF S = {} THEN 0
    ELSE LET x == CHOOSE y \in S : TRUE IN f[x] + SumOf(f, S \ {x})

MaxOfSet(S) == CHOOSE x \in S : \A y \in S : y <= x

RECURSIVE SortedSeq(_, _)
\* The elements of the finite set S as a sequence ascending by key[x]
\* (key is injective on S).
SortedSeq(S, key) ==
    IF S = {} THEN << >>
    ELSE LET x == CHOOSE y \in S : \A z \in S : key[y] <= key[z]
         IN  <<x>> \o SortedSeq(S \ {x}, key)

Range(s) == {s[k] : k \in 1 .. Len(s)}

\* ---------------------------------------------------------------- events
\* One value of a payload key: absent, present and convertible by int(), or
\* present and not convertible (int() raises TypeError / ValueError).
NoKey == [present |-> FALSE, numeric |-> FALSE, val |-> 0]
Num(v) == [present |-> TRUE, numeric |-> TRUE, val |-> v]
NotNum == [present |-> TRUE, numeric |-> FALSE, val |-> 0]

\* A JSON payload column: NULL / not a dict, or a dict with an optional
\* "severity" key and an optional "data" sub-object with its own "severity".
NoPayload == [isdict |-> FALSE, severity |-> NoKey, data_isdict |-> FALSE, data_severity |-> NoKey]
Payload(sev, dataIsDict, dataSev) ==
    [isdict |-> TRUE, severity |-> sev, data_isdict |-> dataIsDict, data_severity |-> dataSev]

\* risk_score, the event's precomputed risk contribution, is a Float column:
\* it is counted in tenths (75 is 7.5), None when the column is NULL.
NormalizedEvent(id, entity, etype, t, sev) ==
    [id |-> id, entity_id |-> entity, event_type |-> etype, observed_at |-> t,
     deleted |-> FALSE, status |-> "active",
     normalized_payload |-> Payload(Num(sev), FALSE, NoKey),
     original_payload |-> NoPayload, risk_score |-> None]

\* Events the ingestion side may add while the analyzer runs.
EventPool ==
    { NormalizedEvent(1, 1, "login", 0, 5),
      NormalizedEvent(2, 1, "auth", 1, 9),
      NormalizedEvent(3, 1, "login", 2, 5),
      [NormalizedEvent(4, 2, "dns", 3, 0) EXCEPT
          !.normalized_payload = Payload(NoKey, TRUE, Num(3))] }

\* Events that are in the store from the start and that no query may select:
\* one without entity, one soft-deleted, one not active.
FixedEvents ==
    { NormalizedEvent(5, None, "login", 1, 7),
      [NormalizedEvent(6, 1, "alert", 1, 10) EXCEPT !.deleted = TRUE],
      [NormalizedEvent(7, 2, "dns", 2, 6) EXCEPT !.status = "inactive"] }

\* Events whose payload carries a severity outside the scale of 0 to 10.
MalformedEvents ==
    { NormalizedEvent(8, 1, "scan", 1, -5) }

\* Events that differ in where a severity is found: a top-level severity of 0
\* alone and beside a risk contribution of 7.5, a top-level severity beside a
\* nested one, no payload but a risk contribution (7.5 and -2.5), a severity
\* in the original payload only, and a top-level 0 above a nested 9.
SeverityEvents ==
    { NormalizedEvent(9, 1, "login", 1, 0),
      [NormalizedEvent(10, 1, "login", 1, 0) EXCEPT !.risk_score = 75],
      [NormalizedEvent(11, 1, "auth", 1, 6) EXCEPT
          !.normalized_payload = Payload(Num(6), TRUE, Num(9))],
      [NormalizedEvent(12, 1, "auth", 1, 0) EXCEPT
          !.normalized_payload = NoPayload, !.risk_score = 75],
      [NormalizedEvent(13, 1, "auth", 1, 0) EXCEPT
          !.normalized_payload = NoPayload, !.risk_score = -25],
      [NormalizedEvent(14, 1, "scan", 1, 0) EXCEPT
          !.normalized_payload = NoPayload,
          !.original_payload = Payload(Num(4), FALSE, NoKey)],
      [NormalizedEvent(15, 1, "scan", 1, 0) EXCEPT
          !.normalized_payload = Payload(Num(0), TRUE, Num(9))] }

\* Events without a usable severity: a severity that int() cannot convert
\* (at the top level, nested, and in the original payload), no payload at
\* all, and a payload without severity keys.
UnusableEvents ==
    { [NormalizedEvent(16, 2, "scan", 1, 0) EXCEPT
          !.normalized_payload = Payload(NotNum, FALSE, NoKey)],
      [NormalizedEvent(17, 1, "login", 0, 0) EXCEPT !.normalized_payload = NoPayload],
      [NormalizedEvent(18, 1, "login", 1, 0) EXCEPT
          !.normalized_payload = Payload(NoKey, FALSE, NoKey)],
      [NormalizedEvent(19, 2, "dns", 1, 0) EXCEPT
          !.normalized_payload = Payload(NoKey, TRUE, NotNum)],
      [NormalizedEvent(20, 2, "dns", 3, 0) EXCEPT
          !.normalized_payload = Payload(NoKey, TRUE, NoKey),
          !.original_payload = Payload(NotNum, FALSE, NoKey)] }

\* --------------------------------------------------------------- windows
\* A datetime is the instant it denotes on the UTC time line.  ensure_utc reads
\* a naive value as UTC (replace(tzinfo=UTC)) and re-expresses an aware one in
\* UTC (astimezone(UTC)); neither moves the instant.
ensure_utc(value) == value

\* Slip: the window is the 24 hours that start at the event.
window_bounds_rolling(observed_at) ==
    <<ensure_utc(observed_at), ensure_utc(observed_at) + TicksPerDay>>

window_bounds(observed_at) ==
    LET start == ensure_utc(observed_at) - (ensure_utc(observed_at) % TicksPerDay)
    IN  <<start, start + TicksPerDay>>

EntityEventWindow(entity_id, window_start, window_end, evs) ==
    [entity_id |-> entity_id, window_start |-> window_start,
     window_end |-> window_end, events |-> evs]

\* Slip: the lower bound of the range is not applied.
SelectEvents_nosince(evs, since, until) ==
    { e \in evs :
        /\ e.entity_id # None
        /\ ~e.deleted
        /\ e.status = "active"
        /\ (until # None => e.observed_at < until) }

\* Slip: soft-deleted rows are not filtered out.
SelectEvents_deleted(evs, since, until) ==
    { e \in evs :
        /\ e.entity_id # None
        /\ e.status = "active"
        /\ (since # None => e.observed_at >= ensure_utc(since))
        /\ (until # None => e.observed_at < ensure_utc(until)) }

\* The rows the SELECT of fetch_entity_event_windows returns.
SelectEvents(evs, since, until) ==
    { e \in evs :
        /\ e.entity_id # None
        /\ ~e.deleted
        /\ e.status = "active"
        /\ (since # None => e.observed_at >= ensure_utc(since))
        /\ (until # None => e.observed_at < ensure_utc(until)) }

\* ORDER BY entity_id, observed_at; rows that tie come in primary-key order.
EventOrderKey == [e \in EventPool \cup FixedEvents \cup MalformedEvents
                         \cup SeverityEvents \cup UnusableEvents |->
                    (e.observed_at * 100) + e.id]

\* Slip: the keys are sorted in descending order.
fetch_entity_event_windows_desc(evs, since, until) ==
    LET selected == SelectEvents(evs, since, until)
        keys == { <<e.entity_id, window_bounds(e.observed_at)[1]>> : e \in selected }
        keyOrder == [k \in keys |-> 0 - ((k[1] * 1000) + k[2])]
        ordered == SortedSeq(keys, keyOrder)
        grouped(k) == { e \in selected :
                          /\ e.entity_id = k[1]
                          /\ window_bounds(e.observed_at)[1] = k[2] }
    IN  [n \in 1 .. Len(ordered) |->
            EntityEventWindow(ordered[n][1], ordered[n][2],
                              ordered[n][2] + TicksPerDay,
                              SortedSeq(grouped(ordered[n]),
                                        [e \in grouped(ordered[n]) |-> EventOrderKey[e]]))]

\* Slip: a window is emitted for every day on which the entity has an event,
\* inside the range or not.
fetch_entity_event_windows_dense(evs, since, until) ==
    LET selected == SelectEvents(evs, since, until)
        keys == { <<e.entity_id, window_bounds(e.observed_at)[1]>> :
                    e \in SelectEvents(evs, None, None) }
        keyOrder == [k \in keys |-> (k[1] * 1000) + k[2]]
        ordered == SortedSeq(keys, keyOrder)
        grouped(k) == { e \in selected :
                          /\ e.entity_id = k[1]
                          /\ window_bounds(e.observed_at)[1] = k[2] }
    IN  [n \in 1 .. Len(ordered) |->
            EntityEventWindow(ordered[n][1], ordered[n][2],
                              ordered[n][2] + TicksPerDay,
                              SortedSeq(grouped(ordered[n]),
                                        [e \in grouped(ordered[n]) |-> EventOrderKey[e]]))]

fetch_entity_event_windows(evs, since, until) ==
    LET selected == SelectEvents(evs, since, until)
        keys == { <<e.entity_id, window_bounds(e.observed_at)[1]>> : e \in selected }
        keyOrder == [k \in keys |-> (k[1] * 1000) + k[2]]
        ordered == SortedSeq(keys, keyOrder)
        grouped(k) == { e \in selected :
                          /\ e.entity_id = k[1]
                          /\ window_bounds(e.observed_at)[1] = k[2] }
    IN  [n \in 1 .. Len(ordered) |->
            EntityEventWindow(ordered[n][1], ordered[n][2],
                              ordered[n][2] + TicksPerDay,
                              SortedSeq(grouped(ordered[n]),
                                        [e \in grouped(ordered[n]) |-> EventOrderKey[e]]))]

\* -------------------------------------------------------------- pipeline
_extract_severity_from_payload(payload) ==
    IF ~payload.isdict THEN None
    ELSE IF payload.severity.present
         THEN (IF payload.severity.numeric THEN payload.severity.val ELSE None)
    ELSE IF payload.data_isdict /\ payload.data_severity.present
         THEN (IF payload.data_severity.numeric THEN payload.data_severity.val ELSE None)
    ELSE None

\* Python truthiness of an Optional[int]: None and 0 are falsy.
Truthy(v) == v # None /\ v # 0

\* int() of a float counted in tenths: truncation toward zero.
IntCast(tenths) == IF tenths >= 0 THEN tenths \div 10 ELSE 0 - ((0 - tenths) \div 10)

\* a or b or c: the first truthy operand, else the last one.
_severity_from_event(event) ==
    LET a == _extract_severity_from_payload(event.normalized_payload)
        b == _extract_severity_from_payload(event.original_payload)
    IN  IF Truthy(a) THEN a
        ELSE IF Truthy(b) THEN b
        ELSE IF event.risk_score # None THEN IntCast(event.risk_score)
        ELSE None

\* if not events: raise ValueError.
extract_raises(evs) == Len(evs) = 0

\* The order of Python's str comparison (by code point) on the event types
\* of the modelled events.
EventTypeRank ==
    [t \in {"alert", "auth", "dns", "login", "scan"} |->
        CASE t = "alert" -> 1 [] t = "auth" -> 2 [] t = "dns" -> 3
          [] t = "login" -> 4 [] t = "scan" -> 5]

\* The features of a non-empty sequence of events; event_types is
\* sorted({e.event_type for e in events}).
extract(evs) ==
    LET severities == { _severity_from_event(evs[k]) : k \in 1 .. Len(evs) } \ {None}
        types == { evs[k].event_type : k \in 1 .. Len(evs) }
    IN  [event_count |-> Len(evs),
         highest_severity |-> IF severities # {} THEN MaxOfSet(severities) ELSE None,
         last_observed_at |-> ensure_utc(MaxOfSet({ evs[k].observed_at : k \in 1 .. Len(evs) })),
         event_types |-> SortedSeq(types, [t \in types |-> EventTypeRank[t]])]

\* Slip: ten events already count as a high volume.
evaluate_ge(entity_id, features, evs) ==
    LET volume == features.event_count >= 10
        severe == features.highest_severity # None /\ features.highest_severity >= 8
    IN  [triggered_rules |->
            (IF volume THEN <<"high_event_volume">> ELSE << >>)
            \o (IF severe THEN <<"high_severity_detected">> ELSE << >>),
         metadata |->
            (IF volume THEN {<<"event_count", features.event_count>>} ELSE {})
            \cup (IF severe THEN {<<"highest_severity", features.highest_severity>>} ELSE {})]

evaluate(entity_id, features, evs) ==
    LET volume == features.event_count > 10
        severe == features.highest_severity # None /\ features.highest_severity >= 8
    IN  [triggered_rules |->
            (IF volume THEN <<"high_event_volume">> ELSE << >>)
            \o (IF severe THEN <<"high_severity_detected">> ELSE << >>),
         metadata |->
            (IF volume THEN {<<"event_count", features.event_count>>} ELSE {})
            \cup (IF severe THEN {<<"highest_severity", features.highest_severity>>} ELSE {})]

calculate_score(entity_id, features, rule_evaluation) ==
    Min(Min(features.event_count * 2, 40)
        + (IF features.highest_severity # None THEN 3 * features.highest_severity ELSE 0)
        + (Len(rule_evaluation.triggered_rules) * 30),
        100)

\* (highest_severity / 10.0) * 30 in IEEE-754 double arithmetic, as the
\* distance of the product from the integer 3 * highest_severity in units of
\* 2^-46 (the spacing of doubles between 64 and 128).  Among the severities of
\* magnitude up to 60 the product is that integer except at 41 and -41:
\* 41 / 10.0 rounds to 4.1 and 4.1 * 30 rounds to 122.99999999999999.
SeverityRounding(highest_severity) ==
    IF highest_severity = 41 THEN -1
    ELSE IF highest_severity = -41 THEN 1
    ELSE 0

\* The distance, in units of 2^-46, of the double calculate_score returns from
\* the integer calculate_score gives here.  The additions of the event-count
\* points and of the rule bonus are exact, and min(score, 100.0) replaces
\* every sum of 100.0 or more by 100.0.
calculate_score_ulps(entity_id, features, rule_evaluation) ==
    LET whole == Min(features.event_count * 2, 40)
                 + (IF features.highest_severity # None
                    THEN 3 * features.highest_severity ELSE 0)
                 + (Len(rule_evaluation.triggered_rules) * 30)
        ulps == IF features.highest_severity # None
                THEN SeverityRounding(features.highest_severity) ELSE 0
    IN  IF whole > 100 \/ (whole = 100 /\ ulps >= 0) THEN 0 ELSE ulps

analyze(entity_id, window_start, window_end, evs) ==
    LET features == extract(evs)
        rule_evaluation == evaluate(entity_id, features, evs)
        risk_score == calculate_score(entity_id, features, rule_evaluation)
    IN  [entity_id |-> entity_id,
         window_start |-> ensure_utc(window_start),
         window_end |-> ensure_utc(window_end),
         features |-> features,
         rule_evaluation |-> rule_evaluation,
         risk_score |-> risk_score]

\* -------------------------------------------------------------- baseline
\* BaselineStats(avg, sigma).  sigma is carried as its square (the population
\* variance), so avg and sigma_sq are exact fractions <<numerator, denominator>>.
BaselineStats(avg, sigma_sq) == [avg |-> avg, sigma_sq |-> sigma_sq]

\* Slip: a row observed exactly at until is counted.
BaselineRows_inclusive(hist, entity_id, until) ==
    { r \in hist :
        /\ r.entity_id = entity_id
        /\ ~r.deleted
        /\ r.observed_at >= until - (window_days * TicksPerDay)
        /\ r.observed_at <= until }

\* The rows the aggregate query of get_baseline ranges over.
BaselineRows(hist, entity_id, until) ==
    { r \in hist :
        /\ r.entity_id = entity_id
        /\ ~r.deleted
        /\ r.observed_at >= until - (window_days * TicksPerDay)
        /\ r.observed_at < until }

\* Slip: the sample deviation (divisor n - 1) instead of the population's.
QueryStats_sample(rows) ==
    LET n == Cardinality(rows)
        sum == SumOf([r \in rows |-> r.risk_score], rows)
        sumsq == SumOf([r \in rows |-> r.risk_score * r.risk_score], rows)
    IN  IF n = 0 THEN BaselineStats(<<0, 1>>, <<0, 1>>)
        ELSE IF n = 1 THEN BaselineStats(Frac(sum, n), <<0, 1>>)
        ELSE BaselineStats(Frac(sum, n), Frac((n * sumsq) - (sum * sum), n * (n - 1)))

\* avg() and stddev_pop() over the rows; both are NULL over no row, and
\* "result[k] or 0.0" turns NULL into 0.0.
QueryStats(rows) ==
    LET n == Cardinality(rows)
        sum == SumOf([r \in rows |-> r.risk_score], rows)
        sumsq == SumOf([r \in rows |-> r.risk_score * r.risk_score], rows)
    IN  IF n = 0 THEN BaselineStats(<<0, 1>>, <<0, 1>>)
        ELSE BaselineStats(Frac(sum, n), Frac((n * sumsq) - (sum * sum), n * n))

EmptyCache == [e \in {} |-> BaselineStats(<<0, 1>>, <<0, 1>>)]

\* Slip: the cache is not consulted.
get_baseline_nocache(hist, cache, entity_id, until) ==
    QueryStats(BaselineRows(hist, entity_id, until))

\* Slip: the cache is one slot; whatever it holds is returned for any entity.
get_baseline_anyentity(hist, cache, entity_id, until) ==
    IF DOMAIN cache # {} THEN cache[CHOOSE e \in DOMAIN cache : TRUE]
    ELSE QueryStats(BaselineRows(hist, entity_id, until))

get_baseline(hist, cache, entity_id, until) ==
    IF entity_id \in DOMAIN cache THEN cache[entity_id]
    ELSE QueryStats(BaselineRows(hist, entity_id, until))

\* self.cache after get_baseline(entity_id, until).
CacheAfter(hist, cache, entity_id, until) ==
    IF entity_id \in DOMAIN cache THEN cache
    ELSE [e \in DOMAIN cache \cup {entity_id} |->
            IF e = entity_id THEN get_baseline(hist, cache, entity_id, until) ELSE cache[e]]

\* risk_score > avg + sigma_multiplier * sigma, with avg = a/b and
\* sigma = sqrt(v/w): the difference must be positive and its square must
\* exceed sigma_multiplier^2 * v/w.
ExceedsThreshold(risk_score, stats) ==
    LET a == stats.avg[1]
        b == stats.avg[2]
        v == stats.sigma_sq[1]
        w == stats.sigma_sq[2]
        d == (risk_score * b) - a
    IN  /\ d > 0
        /\ d * d * w > sigma_multiplier * sigma_multiplier * v * b * b

\* Slip: a score equal to the threshold counts as anomalous.
is_anomalous_ge(hist, cache, entity_id, until, risk_score) ==
    LET stats == get_baseline(hist, cache, entity_id, until)
        d == (risk_score * stats.avg[2]) - stats.avg[1]
    IN  <<ExceedsThreshold(risk_score, stats)
            \/ (d >= 0 /\ d * d * stats.sigma_sq[2]
                            = sigma_multiplier * sigma_multiplier * stats.sigma_sq[1]
                              * stats.avg[2] * stats.avg[2]),
          Frac(d, stats.avg[2])>>

\* <<flag, delta>>; delta = risk_score - avg as a fraction.
is_anomalous(hist, cache, entity_id, until, risk_score) ==
    LET stats == get_baseline(hist, cache, entity_id, until)
    IN  <<ExceedsThreshold(risk_score, stats),
          Frac((risk_score * stats.avg[2]) - stats.avg[1], stats.avg[2])>>

\* The service's baseline enrichment of one pipeline result: the result
\* with baseline_avg, baseline_sigma, delta and is_anomalous filled in from
\* is_anomalous(entity, window_end, risk_score).
EnrichResult(result, hist, cache) ==
    LET stats == get_baseline(hist, cache, result.entity_id, result.window_end)
        verdict == is_anomalous(hist, cache, result.entity_id, result.window_end,
                                result.risk_score)
    IN  [entity_id |-> result.entity_id,
         window_start |-> result.window_start,
         window_end |-> result.window_end,
         features |-> result.features,
         rule_evaluation |-> result.rule_evaluation,
         risk_score |-> result.risk_score,
         baseline_avg |-> stats.avg,
         baseline_sigma_sq |-> stats.sigma_sq,
         delta |-> verdict[2],
         is_anomalous |-> verdict[1]]

\* ------------------------------------------------------------ repository
\* Slip: the payload is written without its baseline object.
ReasonPayload_nobaseline(result) ==
    [generator |-> REASON_GENERATOR,
     kind |-> REASON_KIND,
     window_start |-> result.window_start,
     window_end |-> result.window_end,
     event_count |-> result.features.event_count,
     highest_severity |-> result.features.highest_severity,
     last_observed_at |-> result.features.last_observed_at,
     rules |-> [triggered |-> result.rule_evaluation.triggered_rules,
                metadata |-> result.rule_evaluation.metadata]]

\* The reason column written by persist_result (json.dumps of the payload).
ReasonPayload(result) ==
    [generator |-> REASON_GENERATOR,
     kind |-> REASON_KIND,
     window_start |-> result.window_start,
     window_end |-> result.window_end,
     event_count |-> result.features.event_count,
     highest_severity |-> result.features.highest_severity,
     last_observed_at |-> result.features.last_observed_at,
     rules |-> [triggered |-> result.rule_evaluation.triggered_rules,
                metadata |-> result.rule_evaluation.metadata],
     baseline |-> [avg |-> result.baseline_avg,
                   sigma_sq |-> result.baseline_sigma_sq,
                   delta |-> result.delta,
                   is_anomalous |-> result.is_anomalous]]

\* A reason written by something other than persist_result.
OtherReason(generator) ==
    [generator |-> generator,
     kind |-> "other",
     window_start |-> None,
     window_end |-> None,
     event_count |-> 0,
     highest_severity |-> None,
     last_observed_at |-> None,
     rules |-> [triggered |-> << >>, metadata |-> {}],
     baseline |-> [avg |-> <<0, 1>>, sigma_sq |-> <<0, 1>>, delta |-> <<0, 1>>,
                   is_anomalous |-> FALSE]]

EntityRiskHistory(id, entity_id, observed_at, risk_score, reason, deleted) ==
    [id |-> id, entity_id |-> entity_id, observed_at |-> observed_at,
     risk_score |-> risk_score, reason |-> reason, deleted |-> deleted]

\* Slip: the lookup never finds the existing row.
_find_history_none(hist, entity_id, observed_at) == {}

\* Slip: the lookup matches soft-deleted rows too.
_find_history_anyrow(hist, entity_id, observed_at) ==
    { r \in hist :
        /\ r.entity_id = entity_id
        /\ r.observed_at = ensure_utc(observed_at) }

\* The rows _find_history's SELECT matches; scalar_one_or_none() returns None
\* for no row, the row for one, and raises MultipleResultsFound for more.
_find_history(hist, entity_id, observed_at) ==
    { r \in hist :
        /\ r.entity_id = entity_id
        /\ r.observed_at = ensure_utc(observed_at)
        /\ ~r.deleted }

\* A session's unit of work: updates of loaded rows (by primary key) and the
\* new rows added, in the order of the add() calls.
EmptySession == [updates |-> {}, adds |-> << >>]

\* Slip: every result is added as a new row.
persist_result_insert(hist, session, result) ==
    [session EXCEPT !.adds =
        Append(@, [id |-> None, entity_id |-> result.entity_id,
                   observed_at |-> result.window_end, risk_score |-> result.risk_score,
                   reason |-> ReasonPayload(result), deleted |-> FALSE])]

\* The session after persist_result(result); hist is the database as the
\* session's queries see it (autoflush is off: pending rows are not seen).
persist_result(hist, session, result) ==
    LET existing == _find_history(hist, result.entity_id, result.window_end)
        reason == ReasonPayload(result)
    IN  IF existing # {}
        THEN LET row == CHOOSE r \in existing : TRUE
             IN  [session EXCEPT !.updates =
                    { u \in @ : u.id # row.id }
                    \cup {[id |-> row.id, risk_score |-> result.risk_score, reason |-> reason]}]
        ELSE [session EXCEPT !.adds =
                Append(@, EntityRiskHistory(None, result.entity_id, result.window_end,
                                            result.risk_score, reason, FALSE))]

\* The next value of the table's autoincrement primary key.
NextId(hist) == 1 + MaxOfSet({0} \cup { r.id : r \in hist })

\* The table after the session's flush: UPDATE by primary key, then INSERT
\* with autoincremented ids.
ApplySession(hist, session) ==
    { IF \E u \in session.updates : u.id = r.id
      THEN LET u == CHOOSE x \in session.updates : x.id = r.id
           IN  [r EXCEPT !.risk_score = u.risk_score, !.reason = u.reason]
      ELSE r : r \in hist }
    \cup { [session.adds[k] EXCEPT !.id = NextId(hist) + k - 1] : k \in 1 .. Len(session.adds) }

\* session.commit(): the unit of work is flushed and made durable.
SessionCommit(hist, session) == ApplySession(hist, session)

\* Slip: the flush marks the loaded events as processed.
FlushEvents_marked(evs, session) ==
    { IF e.entity_id # None /\ ~e.deleted /\ e.status = "active"
      THEN [e EXCEPT !.status = "processed"] ELSE e : e \in evs }

\* normalized_events after the flush: the NormalizedEvent objects the session
\* has loaded were only read, so the unit of work holds no change of theirs.
FlushEvents(evs, session) == evs

\* Slip: closing the session flushes and commits what is pending.
SessionClose_commit(hist, session) == ApplySession(hist, session)

\* Leaving "with session_factory() as session" without a commit: close()
\* rolls the transaction back and drops what was pending.
SessionClose(hist, session) == hist

\* Slip: the checkpoint is read from the row written last.
get_latest_checkpoint_last(hist) ==
    LET own == { r \in hist : r.reason.generator = REASON_GENERATOR }
    IN  IF own = {} THEN None
        ELSE (CHOOSE r \in own : \A q \in own : q.id <= r.id).observed_at

\* Slip: soft-deleted rows are left out of the checkpoint.
get_latest_checkpoint_live(hist) ==
    LET own == { r \in hist : r.reason.generator = REASON_GENERATOR /\ ~r.deleted }
    IN  IF own = {} THEN None
        ELSE MaxOfSet({ r.observed_at : r \in own })

get_latest_checkpoint(hist) ==
    LET own == { r \in hist : r.reason.generator = REASON_GENERATOR }
    IN  IF own = {} THEN None
        ELSE ensure_utc(MaxOfSet({ r.observed_at : r \in own }))

latest_history_for_entity(hist, entity_id) ==
    LET rows == { r \in hist : r.entity_id = entity_id /\ ~r.deleted }
    IN  IF rows = {} THEN {}
        ELSE { r \in rows : \A q \in rows : q.observed_at <= r.observed_at }

\* ----------------------------------------------------------- alert logger
\* The JSON line log_anomaly appends (its wall-clock timestamp left out).
AlertRecord(result) ==
    [entity_id |-> result.entity_id,
     risk_score |-> result.risk_score,
     baseline_avg |-> result.baseline_avg,
     baseline_sigma_sq |-> result.baseline_sigma_sq,
     delta |-> result.delta,
     triggered_rules |-> result.rule_evaluation.triggered_rules]

log_anomaly(log, result) == Append(log, AlertRecord(result))

\* --------------------------------------------------------------- service
\* Slip: until defaults to the end of the current UTC day.
default_until_tomorrow(day) == (day + 1) * TicksPerDay

default_until(day) == day * TicksPerDay

\* Slip: a checkpoint equal to until is not yet "newer".
NothingToDo_gt(checkpoint, until) == checkpoint # None /\ checkpoint > until

\* "if checkpoint and checkpoint >= until": nothing to do.
NothingToDo(checkpoint, until) == checkpoint # None /\ checkpoint >= until

\* The whole of one successful run_once over a fixed database and event
\* store, as the table it commits: every window of the range analysed,
\* enriched and persisted in order, then one commit.
RECURSIVE ProcessAll(_, _, _, _, _)
ProcessAll(hist, windows, k, session, cache) ==
    IF k > Len(windows) THEN session
    ELSE LET w == windows[k]
             result == EnrichResult(analyze(w.entity_id, w.window_start, w.window_end, w.events),
                                    hist, cache)
         IN  ProcessAll(hist, windows, k + 1,
                        persist_result(hist, session, result),
                        CacheAfter(hist, cache, w.entity_id, w.window_end))

\* The table after the loop over windows and the commit.
CommitWindows(hist, windows) ==
    IF Len(windows) = 0 THEN hist
    ELSE SessionCommit(hist, ProcessAll(hist, windows, 1, EmptySession, EmptyCache))

\* ----------------------------------------------------------------- state
VARIABLES
    events,     \* the normalized_events table
    history,    \* the committed entity_risk_history table
    alertLog,   \* the lines of the alert log file, oldest first
    alertKeys,  \* for each line of alertLog, the <<entity, window_end>> it reports
    today,      \* the current UTC day, as datetime.now() sees it
    pc,         \* where each service instance is
    run,        \* the locals of each instance's run_once / run_forever
    done,       \* how each instance's last finished run_once ended
    runs,       \* run_once invocations so far
    dialect,    \* the database the session factory is bound to
    calc,       \* a BaselineCalculator used on its own: its cache and last call
    pipe,       \* the pipeline used on its own: its last call
    query       \* the repository used on its own: its last two window queries

vars == <<events, history, alertLog, alertKeys, today, pc, run, done, runs,
          dialect, calc, pipe, query>>

\* What the service's runs leave alone: the database in use, and the
\* calculator, pipeline and repository objects of other callers.
apart == <<dialect, calc, pipe, query>>

\* session.execute(query) of get_baseline raises: the entity is not cached
\* and the database has no stddev_pop.
QueryRaises(cache, entity_id) ==
    entity_id \notin DOMAIN cache /\ ~HasStddevPop(dialect)

\* The table one run_once(since, until) leaves: unchanged when there is
\* nothing to do, no window, or the baseline query raises at the first
\* window; otherwise what the loop and the commit write.
RunOnceResult(hist, evs, since, until) ==
    LET checkpoint == IF since # None THEN since ELSE get_latest_checkpoint(hist)
        windows == IF NothingToDo(checkpoint, until) THEN << >>
                   ELSE fetch_entity_event_windows(evs, checkpoint, until)
    IN  IF Len(windows) = 0 \/ ~HasStddevPop(dialect) THEN hist
        ELSE CommitWindows(hist, windows)

\* Instances that never overlap (one-shot runs and one daemon on one host).
SeqInst == {1}

\* The arguments run_once and run_forever are called with.
SinceArgs == {None, 0, 1, 2, 3}
UntilArgs == {None, 2, 3}

\* histBefore: the table when the run began.
IdleRun ==
    [daemon |-> FALSE, sinceArg |-> None, untilArg |-> None, until |-> None,
     checkpoint |-> None, windows |-> << >>, idx |-> 0, session |-> EmptySession,
     cache |-> EmptyCache, processed |-> 0, queried |-> FALSE,
     histBefore |-> {}]

\* The last finished run_once of an instance: how it ended, the count it had
\* reached, and whether it had queried the events.
NoDone == [outcome |-> "none", processed |-> 0, queried |-> FALSE]

\* Risk history that exists before the first run: none, or an untagged row
\* of another writer together with a soft-deleted row of this engine.
InitHistories ==
    { {},
      { EntityRiskHistory(1, 2, 4, 50, OtherReason("test"), FALSE),
        EntityRiskHistory(2, 1, 2, 99, OtherReason(REASON_GENERATOR), TRUE) } }

Busy(i) == pc[i] \in {"fetch", "process"}

\* A BaselineCalculator of which no method has been called.
NoCall ==
    [op |-> "none", entity_id |-> None, until |-> None, risk_score |-> None,
     cached |-> FALSE, raised |-> FALSE,
     stats |-> BaselineStats(<<0, 1>>, <<0, 1>>), flag |-> FALSE, delta |-> <<0, 1>>]
NoCalc == [cache |-> EmptyCache, last |-> NoCall]

\* A pipeline of which no method has been called.
NoFeatures ==
    [event_count |-> 0, highest_severity |-> None, last_observed_at |-> None,
     event_types |-> << >>]
NoPipe ==
    [op |-> "none", events |-> << >>, features |-> NoFeatures,
     rule_evaluation |-> [triggered_rules |-> << >>, metadata |-> {}],
     risk_score |-> 0, ulps |-> 0, severity |-> None, raised |-> FALSE]

\* A repository of which no window query has been made.
NoFetch == [op |-> "none", since |-> None, until |-> None, windows |-> << >>]
NoQuery == [prev |-> NoFetch, last |-> NoFetch]

Init ==
    /\ events = FixedEvents
    /\ history \in InitHistories
    /\ alertLog = << >>
    /\ alertKeys = << >>
    /\ today = NumDays
    /\ pc = [i \in Inst |-> "idle"]
    /\ run = [i \in Inst |-> IdleRun]
    /\ done = [i \in Inst |-> NoDone]
    /\ runs = 0
    /\ dialect \in Dialects
    /\ calc = NoCalc
    /\ pipe = NoPipe
    /\ query = NoQuery

\* The record of a run_once that has just ended.
Ended(outcome, processed, queried) ==
    [outcome |-> outcome, processed |-> processed, queried |-> queried]

\* Where control goes when run_once returns: back to the caller, or to the
\* daemon's sleep with since reset to None.
AfterReturn(daemon) == IF daemon THEN "sleeping" ELSE "idle"

\* Where control goes when run_once raises: run_forever catches only
\* KeyboardInterrupt, so any other exception leaves its loop.
AfterRaise(daemon) == IF daemon THEN "crashed" ELSE "idle"

\* Slip: the loop keeps the since it was started with.
SinceAfterRun_kept(since) == since

\* run_forever's local since once a run_once has returned: since = None.
SinceAfterRun(since) == None

\* The locals that outlive a run_once call: run_forever's since and until.
Kept(i) ==
    IF run[i].daemon
    THEN [IdleRun EXCEPT !.daemon = TRUE, !.untilArg = run[i].untilArg,
                         !.sinceArg = SinceAfterRun(run[i].sinceArg)]
    ELSE IdleRun

\* run_once up to the checkpoint test: the range is determined and the run
\* either returns 0 or goes on to fetch.
StartRun(i, daemon, since, untilArg) ==
    LET until == IF untilArg # None THEN untilArg ELSE default_until(today)
        checkpoint == IF since # None THEN since ELSE get_latest_checkpoint(history)
    IN  /\ IF NothingToDo(checkpoint, until)
           THEN /\ pc' = [pc EXCEPT ![i] = AfterReturn(daemon)]
                /\ run' = [run EXCEPT ![i] =
                             IF daemon
                             THEN [IdleRun EXCEPT !.daemon = TRUE, !.untilArg = untilArg,
                                                  !.sinceArg = SinceAfterRun(since)]
                             ELSE IdleRun]
                /\ done' = [done EXCEPT ![i] = Ended("returned", 0, FALSE)]
           ELSE /\ pc' = [pc EXCEPT ![i] = "fetch"]
                /\ run' = [run EXCEPT ![i] =
                             [IdleRun EXCEPT !.daemon = daemon, !.sinceArg = since,
                                             !.untilArg = untilArg, !.until = until,
                                             !.checkpoint = checkpoint,
                                             !.histBefore = history]]
                /\ done' = done
        /\ UNCHANGED <<events, history, alertLog, alertKeys, today, apart>>

\* A run_once call that is counted among the MaxRuns invocations.
BeginRun(i, daemon, since, untilArg) ==
    /\ runs < MaxRuns
    /\ runs' = runs + 1
    /\ StartRun(i, daemon, since, untilArg)

\* run_once(since, until) called once (the CLI's "once" mode).
RunOnce(i, others) ==
    /\ pc[i] = "idle"
    /\ \A j \in others : ~Busy(j)
    /\ \E since \in SinceArgs, untilArg \in UntilArgs :
          BeginRun(i, FALSE, since, untilArg)

\* run_forever(interval, since, until): the first run_once of the loop.
RunForever(i, others) ==
    /\ pc[i] = "idle"
    /\ done[i].outcome = "none"
    /\ \A j \in others : ~Busy(j)
    /\ \E since \in SinceArgs, untilArg \in UntilArgs :
          BeginRun(i, TRUE, since, untilArg)

\* The sleep is over: the loop calls run_once(since=since, until=until) with
\* its locals.
DaemonTick(i, others) ==
    /\ pc[i] = "sleeping"
    /\ \A j \in others : ~Busy(j)
    /\ BeginRun(i, TRUE, run[i].sinceArg, run[i].untilArg)

\* fetch_entity_event_windows(since=checkpoint, until=until), and the return
\* of 0 when it finds no window.
Fetch(i) ==
    /\ pc[i] = "fetch"
    /\ \E windows \in {fetch_entity_event_windows(events, run[i].checkpoint, run[i].until)} :
           IF Len(windows) = 0
           THEN /\ pc' = [pc EXCEPT ![i] = AfterReturn(run[i].daemon)]
                /\ run' = [run EXCEPT ![i] = Kept(i)]
                /\ done' = [done EXCEPT ![i] = Ended("returned", 0, TRUE)]
           ELSE /\ pc' = [pc EXCEPT ![i] = "process"]
                /\ run' = [run EXCEPT ![i].windows = windows, ![i].idx = 1,
                                      ![i].queried = TRUE]
                /\ done' = done
    /\ UNCHANGED <<events, history, alertLog, alertKeys, today, runs, apart>>

\* One turn of the loop over the windows: analyze, enrich with the baseline,
\* persist, and log the anomaly.  extract raises ValueError on a window
\* without events, the baseline query raises on a database without
\* stddev_pop, and a key with more than one live row makes _find_history
\* raise MultipleResultsFound; each ends the run.
ProcessWindow(i) ==
    /\ pc[i] = "process"
    /\ run[i].idx <= Len(run[i].windows)
    /\ \E w \in {run[i].windows[run[i].idx]} :
       \E result \in {EnrichResult(analyze(w.entity_id, w.window_start, w.window_end, w.events),
                                  history, run[i].cache)} :
           IF extract_raises(w.events)
           THEN /\ pc' = [pc EXCEPT ![i] = AfterRaise(run[i].daemon)]
                /\ run' = [run EXCEPT ![i] = Kept(i)]
                /\ done' = [done EXCEPT ![i] =
                              Ended("value_error", run[i].processed, TRUE)]
                /\ history' = SessionClose(history, run[i].session)
                /\ UNCHANGED <<alertLog, alertKeys>>
           ELSE IF QueryRaises(run[i].cache, w.entity_id)
           THEN /\ pc' = [pc EXCEPT ![i] = AfterRaise(run[i].daemon)]
                /\ run' = [run EXCEPT ![i] = Kept(i)]
                /\ done' = [done EXCEPT ![i] =
                              Ended("no_such_function", run[i].processed, TRUE)]
                /\ history' = SessionClose(history, run[i].session)
                /\ UNCHANGED <<alertLog, alertKeys>>
           ELSE IF Cardinality(_find_history(history, result.entity_id, result.window_end)) > 1
           THEN /\ pc' = [pc EXCEPT ![i] = AfterRaise(run[i].daemon)]
                /\ run' = [run EXCEPT ![i] = Kept(i)]
                /\ done' = [done EXCEPT ![i] =
                              Ended("multiple_results", run[i].processed, TRUE)]
                /\ history' = SessionClose(history, run[i].session)
                /\ UNCHANGED <<alertLog, alertKeys>>
           ELSE /\ run' = [run EXCEPT
                             ![i].session = persist_result(history, @, result),
                             ![i].cache = CacheAfter(history, @, w.entity_id, w.window_end),
                             ![i].processed = @ + 1,
                             ![i].idx = @ + 1]
                /\ alertLog' = IF result.is_anomalous THEN log_anomaly(alertLog, result)
                               ELSE alertLog
                /\ alertKeys' = IF result.is_anomalous
                                THEN Append(alertKeys, <<result.entity_id, result.window_end>>)
                                ELSE alertKeys
                /\ UNCHANGED <<pc, done, history>>
    /\ UNCHANGED <<events, today, runs, apart>>

\* session.commit() after the last window, and the return of the count.
Commit(i) ==
    /\ pc[i] = "process"
    /\ run[i].idx > Len(run[i].windows)
    /\ history' = SessionCommit(history, run[i].session)
    /\ events' = FlushEvents(events, run[i].session)
    /\ pc' = [pc EXCEPT ![i] = AfterReturn(run[i].daemon)]
    /\ done' = [done EXCEPT ![i] = Ended("returned", run[i].processed, TRUE)]
    /\ run' = [run EXCEPT ![i] = Kept(i)]
    /\ UNCHANGED <<alertLog, alertKeys, today, runs, apart>>

\* A storage call of the run (a query, or the commit itself) raises: the
\* exception leaves the with block, which closes the session.
Fail(i) ==
    /\ Busy(i)
    /\ history' = SessionClose(history, run[i].session)
    /\ pc' = [pc EXCEPT ![i] = AfterRaise(run[i].daemon)]
    /\ done' = [done EXCEPT ![i] = Ended("raised", run[i].processed, run[i].queried)]
    /\ run' = [run EXCEPT ![i] = Kept(i)]
    /\ UNCHANGED <<events, alertLog, alertKeys, today, runs, apart>>

\* KeyboardInterrupt reaches run_forever, in its sleep or inside run_once:
\* the session (if any) is closed and the loop is left without raising.
Interrupt(i) ==
    /\ run[i].daemon
    /\ pc[i] \in {"sleeping", "fetch", "process"}
    /\ history' = SessionClose(history, run[i].session)
    /\ pc' = [pc EXCEPT ![i] = "stopped"]
    /\ done' = IF Busy(i)
               THEN [done EXCEPT ![i] = Ended("interrupted", run[i].processed, run[i].queried)]
               ELSE done
    /\ run' = [run EXCEPT ![i] = Kept(i)]
    /\ UNCHANGED <<events, alertLog, alertKeys, today, runs, apart>>

\* The ingestion side stores one more normalized event.
AddEvent ==
    /\ \E e \in EventPool \ events : events' = events \cup {e}
    /\ UNCHANGED <<history, alertLog, alertKeys, today, pc, run, done, runs, apart>>

\* Midnight UTC passes.
DayPasses ==
    /\ today < NumDays
    /\ today' = today + 1
    /\ UNCHANGED <<events, history, alertLog, alertKeys, pc, run, done, runs, apart>>

\* One instance at a time.
Next ==
    \/ \E i \in SeqInst : RunOnce(i, {})
    \/ \E i \in SeqInst : RunForever(i, {})
    \/ \E i \in SeqInst : DaemonTick(i, {})
    \/ \E i \in SeqInst : Fetch(i)
    \/ \E i \in SeqInst : ProcessWindow(i)
    \/ \E i \in SeqInst : Commit(i)
    \/ \E i \in SeqInst : Fail(i)
    \/ \E i \in SeqInst : Interrupt(i)
    \/ AddEvent

Spec == Init /\ [][Next]_vars

\* Two instances against the same storage, their runs overlapping freely.
NextConc ==
    \/ \E i \in Inst : RunOnce(i, {})
    \/ \E i \in Inst : Fetch(i)
    \/ \E i \in Inst : ProcessWindow(i)
    \/ \E i \in Inst : Commit(i)
    \/ \E i \in Inst : Fail(i)
    \/ AddEvent

SpecConc == Init /\ [][NextConc]_vars

\* No service instance is running and none has run.
ServiceIdle ==
    /\ alertLog = << >>
    /\ alertKeys = << >>
    /\ today = NumDays
    /\ pc = [i \in Inst |-> "idle"]
    /\ run = [i \in Inst |-> IdleRun]
    /\ done = [i \in Inst |-> NoDone]
    /\ runs = 0

service == <<alertLog, alertKeys, today, pc, run, done, runs>>

\* ------------------------------------------- the repository on its own
\* The until bounds a window query is made with.
QueryUntils == UntilArgs \cup {default_until(NumDays)}

InitFetch ==
    /\ events \in SUBSET (EventPool \cup FixedEvents)
    /\ history = {}
    /\ dialect = "sqlite"
    /\ calc = NoCalc
    /\ pipe = NoPipe
    /\ query = NoQuery
    /\ ServiceIdle

\* repository.fetch_entity_event_windows(since, until) on the stored events.
FetchWindows ==
    /\ query.prev.op = "none"
    /\ \E since \in SinceArgs, until \in QueryUntils :
          query' = [prev |-> query.last,
                    last |-> [op |-> "fetch", since |-> since, until |-> until,
                              windows |-> fetch_entity_event_windows(events, since, until)]]
    /\ UNCHANGED <<events, history, dialect, calc, pipe, service>>

NextFetch == FetchWindows

SpecFetch == InitFetch /\ [][NextFetch]_vars

\* ------------------------------------- the baseline calculator on its own
\* Risk history the calculator is used on, for entity 1 and until = 4: two
\* rows inside the baseline window, one before it, one at until, one of
\* another entity and one soft-deleted.
CalcRows ==
    { EntityRiskHistory(1, 1, 2, 15, OtherReason("test"), FALSE),
      EntityRiskHistory(2, 1, 3, 25, OtherReason("test"), FALSE),
      EntityRiskHistory(3, 1, 1, 90, OtherReason("test"), FALSE),
      EntityRiskHistory(4, 1, 4, 100, OtherReason("test"), FALSE),
      EntityRiskHistory(5, 2, 3, 60, OtherReason("test"), FALSE),
      EntityRiskHistory(6, 1, 3, 80, OtherReason("test"), TRUE) }
CalcUntils == {4, 6}
CalcScores == {34, 35, 40}

InitCalc ==
    /\ events = {}
    /\ history \in SUBSET CalcRows
    /\ dialect \in Dialects
    /\ calc = NoCalc
    /\ pipe = NoPipe
    /\ query = NoQuery
    /\ ServiceIdle

\* BaselineCalculator(session): a new calculator with an empty cache.
CalcNew ==
    /\ calc # NoCalc
    /\ calc' = NoCalc
    /\ UNCHANGED <<events, history, dialect, pipe, query, service>>

\* calc.get_baseline(entity_id, until).
CalcGetBaseline ==
    /\ \E entity_id \in Entities, until \in CalcUntils :
          LET call == [NoCall EXCEPT !.op = "get_baseline", !.entity_id = entity_id,
                                     !.until = until,
                                     !.cached = entity_id \in DOMAIN calc.cache]
          IN  IF QueryRaises(calc.cache, entity_id)
              THEN calc' = [calc EXCEPT !.last = [call EXCEPT !.raised = TRUE]]
              ELSE calc' = [cache |-> CacheAfter(history, calc.cache, entity_id, until),
                            last |-> [call EXCEPT
                                        !.stats = get_baseline(history, calc.cache,
                                                               entity_id, until)]]
    /\ UNCHANGED <<events, history, dialect, pipe, query, service>>

\* calc.is_anomalous(entity_id, until, risk_score).
CalcIsAnomalous ==
    /\ \E entity_id \in Entities, until \in CalcUntils, risk_score \in CalcScores :
          LET call == [NoCall EXCEPT !.op = "is_anomalous", !.entity_id = entity_id,
                                     !.until = until, !.risk_score = risk_score,
                                     !.cached = entity_id \in DOMAIN calc.cache]
              verdict == is_anomalous(history, calc.cache, entity_id, until, risk_score)
          IN  IF QueryRaises(calc.cache, entity_id)
              THEN calc' = [calc EXCEPT !.last = [call EXCEPT !.raised = TRUE]]
              ELSE calc' = [cache |-> CacheAfter(history, calc.cache, entity_id, until),
                            last |-> [call EXCEPT
                                        !.stats = get_baseline(history, calc.cache,
                                                               entity_id, until),
                                        !.flag = verdict[1],
                                        !.delta = verdict[2]]]
    /\ UNCHANGED <<events, history, dialect, pipe, query, service>>

\* Another session commits a risk-history row while the calculator lives.
CalcRowWritten ==
    /\ \E r \in CalcRows \ history : history' = history \cup {r}
    /\ UNCHANGED <<events, dialect, calc, pipe, query, service>>

NextCalc ==
    \/ CalcNew
    \/ CalcGetBaseline
    \/ CalcIsAnomalous
    \/ CalcRowWritten

SpecCalc == InitCalc /\ [][NextCalc]_vars

\* --------------------------------------------- the pipeline on its own
\* Features and rule evaluations the scoring strategy is called with: event
\* counts around the cap of 40 points, severities that int() of a payload
\* value can give (negative and above 10 included), and zero to three rules.
ScoreCounts == {1, 10, 11, 19, 20, 21, 50}
ScoreSeverities == {None, -41, -5, 0, 7, 8, 10, 15, 40, 41}
ScoreRules ==
    { << >>, <<"high_event_volume">>, <<"high_event_volume", "high_severity_detected">>,
      <<"high_event_volume", "high_severity_detected", "custom">> }

\* Events the pipeline is called with.
PipeEvents == EventPool \cup MalformedEvents \cup UnusableEvents

InitPipe ==
    /\ events = {}
    /\ history = {}
    /\ dialect = "sqlite"
    /\ calc = NoCalc
    /\ pipe = NoPipe
    /\ query = NoQuery
    /\ ServiceIdle

\* scoring.calculate_score(entity_id, features, rule_evaluation).
PipeScore ==
    /\ \E c \in ScoreCounts, sev \in ScoreSeverities, rules \in ScoreRules :
          LET features == [NoFeatures EXCEPT !.event_count = c, !.highest_severity = sev]
              rule_evaluation == [triggered_rules |-> rules, metadata |-> {}]
          IN  pipe' = [NoPipe EXCEPT !.op = "calculate_score", !.features = features,
                                     !.rule_evaluation = rule_evaluation,
                                     !.risk_score = calculate_score(1, features,
                                                                    rule_evaluation),
                                     !.ulps = calculate_score_ulps(1, features,
                                                                   rule_evaluation)]
    /\ UNCHANGED <<events, history, dialect, calc, query, service>>

\* evaluator.evaluate(entity_id, features, events) on features of any count
\* and severity.
PipeEvaluate ==
    /\ \E c \in ScoreCounts, sev \in ScoreSeverities :
          LET features == [NoFeatures EXCEPT !.event_count = c, !.highest_severity = sev]
          IN  pipe' = [NoPipe EXCEPT !.op = "evaluate", !.features = features,
                                     !.rule_evaluation = evaluate(1, features, << >>)]
    /\ UNCHANGED <<events, history, dialect, calc, query, service>>

\* _severity_from_event(event) on one event.
PipeSeverity ==
    /\ \E e \in PipeEvents \cup SeverityEvents :
          pipe' = [NoPipe EXCEPT !.op = "severity", !.events = <<e>>,
                                 !.severity = _severity_from_event(e)]
    /\ UNCHANGED <<events, history, dialect, calc, query, service>>

\* The windows the repository groups stores of up to MaxStored of these
\* events into.
MaxStored == 3
PipeWindows ==
    UNION { Range(fetch_entity_event_windows(evs, None, None)) :
              evs \in { S \in SUBSET PipeEvents : Cardinality(S) <= MaxStored } }

\* pipeline.analyze(entity_id, window_start, window_end, events) on a window
\* of events.
PipeAnalyze ==
    /\ \E w \in PipeWindows :
          LET result == analyze(w.entity_id, w.window_start, w.window_end, w.events)
          IN  pipe' = [op |-> "analyze", events |-> w.events,
                       features |-> result.features,
                       rule_evaluation |-> result.rule_evaluation,
                       risk_score |-> result.risk_score,
                       ulps |-> calculate_score_ulps(result.entity_id, result.features,
                                                     result.rule_evaluation),
                       severity |-> None, raised |-> FALSE]
    /\ UNCHANGED <<events, history, dialect, calc, query, service>>

NextPipe ==
    \/ PipeScore
    \/ PipeEvaluate
    \/ PipeSeverity
    \/ PipeAnalyze

SpecPipe == InitPipe /\ [][NextPipe]_vars

\* ------------------------------- the service on events without severity
\* Stores of events most of which carry no usable severity: the unusable
\* events alone, with one event of severity 9 among them, and a single event
\* whose severity int() cannot convert.
MalformedStores ==
    { UnusableEvents,
      UnusableEvents \cup { e \in EventPool : e.id = 2 },
      { e \in UnusableEvents : e.id = 16 } }

InitMalformed ==
    /\ events \in MalformedStores
    /\ history = {}
    /\ alertLog = << >>
    /\ alertKeys = << >>
    /\ today = NumDays
    /\ pc = [i \in Inst |-> "idle"]
    /\ run = [i \in Inst |-> IdleRun]
    /\ done = [i \in Inst |-> NoDone]
    /\ runs = 0
    /\ dialect \in Dialects
    /\ calc = NoCalc
    /\ pipe = NoPipe
    /\ query = NoQuery

\* extractor.extract(events) called on its own: on no event at all, or on
\* the events of a window of the store.
PipeExtract ==
    /\ \E evs \in {<< >>} \cup { w.events :
                      w \in Range(fetch_entity_event_windows(events, None, None)) } :
          pipe' = IF extract_raises(evs)
                  THEN [NoPipe EXCEPT !.op = "extract", !.events = evs, !.raised = TRUE]
                  ELSE [NoPipe EXCEPT !.op = "extract", !.events = evs,
                                      !.features = extract(evs)]
    /\ UNCHANGED <<events, history, dialect, calc, query, service>>

\* One-shot runs over such a store, and the extractor beside them.
NextMalformed ==
    \/ \E i \in SeqInst : RunOnce(i, {})
    \/ \E i \in SeqInst : Fetch(i)
    \/ \E i \in SeqInst : ProcessWindow(i)
    \/ \E i \in SeqInst : Commit(i)
    \/ \E i \in SeqInst : Fail(i)
    \/ PipeExtract

SpecMalformed == InitMalformed /\ [][NextMalformed]_vars

\* --------------------------------------- the service across a midnight
\* The store holds every event of the pool, the current UTC day is the day
\* of the later ones, and midnight may pass while the service is used.
InitRange ==
    /\ events = FixedEvents \cup EventPool
    /\ history \in InitHistories
    /\ alertLog = << >>
    /\ alertKeys = << >>
    /\ today = 1
    /\ pc = [i \in Inst |-> "idle"]
    /\ run = [i \in Inst |-> IdleRun]
    /\ done = [i \in Inst |-> NoDone]
    /\ runs = 0
    /\ dialect \in Dialects
    /\ calc = NoCalc
    /\ pipe = NoPipe
    /\ query = NoQuery

NextRange ==
    \/ \E i \in SeqInst : RunOnce(i, {})
    \/ \E i \in SeqInst : Fetch(i)
    \/ \E i \in SeqInst : ProcessWindow(i)
    \/ \E i \in SeqInst : Commit(i)
    \/ \E i \in SeqInst : Fail(i)
    \/ DayPasses

SpecRange == InitRange /\ [][NextRange]_vars

\* ---------------------------------------------------------------- claims
Until(untilArg) == IF untilArg # None THEN untilArg ELSE default_until(today)

Live(r) == ~r.deleted
KeyOf(r) == <<r.entity_id, r.observed_at>>
WindowKeys(windows) == { <<windows[k].entity_id, windows[k].window_end>> : k \in 1 .. Len(windows) }

NoDuplicateKeys(hist) ==
    \A r1 \in hist, r2 \in hist :
        (Live(r1) /\ Live(r2) /\ KeyOf(r1) = KeyOf(r2)) => r1.id = r2.id

\* A run_once of instance i ends in this step by raising.
Raises(i) ==
    /\ Busy(i)
    /\ pc'[i] \notin {"fetch", "process"}
    /\ done'[i].outcome \in {"raised", "multiple_results", "no_such_function",
                            "value_error"}

\* The commit of a run writes what one run_once over the same table and the
\* same windows is defined to write.
CommitIsRunOnce ==
    \A i \in SeqInst : Commit(i) => history' = CommitWindows(run[i].histBefore, run[i].windows)

\* C1: when a run_once commits, a second run_once with the same arguments
\* over the same events (none stored since the first run fetched) leaves
\* exactly the rows (ids, keys, scores, reasons) that the first run left; and
\* what the first run commits is what run_once is defined to write.
RunTwiceEqualsOnce ==
    \A i \in SeqInst :
        (/\ Commit(i)
         /\ fetch_entity_event_windows(events, run[i].checkpoint, run[i].until)
               = run[i].windows)
        => /\ history' = CommitWindows(run[i].histBefore, run[i].windows)
           /\ RunOnceResult(history', events, run[i].sinceArg, run[i].until) = history'

C1_Idempotent == [][RunTwiceEqualsOnce]_vars

\* A run has committed rows, and running the same range again has windows
\* to process and changes nothing.
C1_Witness ==
    /\ done[1].outcome = "returned"
    /\ done[1].processed > 0
    /\ \E since \in SinceArgs \ {None}, untilArg \in UntilArgs :
          /\ Len(fetch_entity_event_windows(events, since, Until(untilArg))) > 0
          /\ WindowKeys(fetch_entity_event_windows(events, since, Until(untilArg)))
                \subseteq { KeyOf(r) : r \in { q \in history : Live(q) } }
          /\ RunOnceResult(history, events, since, Until(untilArg)) = history

\* C2: there is never more than one live row per (entity, observed_at); a
\* commit adds one row per window whose key had no live row and overwrites
\* score and reason of the row, keeping its id, for every other window.
UpsertInPlace ==
    \A i \in SeqInst :
        Commit(i) =>
            LET windows == run[i].windows
                taken == { KeyOf(r) : r \in { q \in history : Live(q) } }
            IN  /\ Cardinality(history')
                     = Cardinality(history) + Cardinality(WindowKeys(windows) \ taken)
                /\ \A k \in 1 .. Len(windows) :
                     \A r \in history :
                        (Live(r) /\ KeyOf(r) = <<windows[k].entity_id, windows[k].window_end>>)
                        => \E q \in history' :
                              /\ q.id = r.id
                              /\ KeyOf(q) = KeyOf(r)
                              /\ Live(q)
                              /\ q.reason.generator = REASON_GENERATOR
                              /\ q.reason.event_count = Len(windows[k].events)
                              /\ q.risk_score
                                   = analyze(windows[k].entity_id, windows[k].window_start,
                                             windows[k].window_end, windows[k].events).risk_score

C2_UpsertUnique == [](NoDuplicateKeys(history)) /\ [][UpsertInPlace]_vars

\* A run is about to commit an overwrite of a row whose score differs.
C2_Witness ==
    /\ pc[1] = "process"
    /\ run[1].idx > Len(run[1].windows)
    /\ \E u \in run[1].session.updates :
          \E r \in history : r.id = u.id /\ r.risk_score # u.risk_score

\* C3: a run that raises before its commit leaves the table as it was when
\* the run began, and with it the checkpoint; while a run is under way none
\* of its windows is in the table.
FailureLeavesNothing ==
    \A i \in SeqInst :
        Raises(i) =>
            /\ history' = run[i].histBefore
            /\ get_latest_checkpoint(history') = get_latest_checkpoint(run[i].histBefore)

C3_AtomicCommit ==
    [](\A i \in SeqInst : Busy(i) => history = run[i].histBefore)
    /\ [][FailureLeavesNothing]_vars

\* A run raised after it had persisted at least one window.
C3_Witness ==
    /\ done[1].outcome = "raised"
    /\ done[1].processed > 0

\* The latest window end among the windows of a run.
MaxWindowEnd(windows) == MaxOfSet({ windows[k].window_end : k \in 1 .. Len(windows) })

OwnRows(hist) == { r \in hist : r.reason.generator = REASON_GENERATOR }

\* C4 as claimed: after a run_once that processed at least one window the
\* checkpoint equals the maximum window end among the windows of that run.
C4_CheckpointIsRunMaxEnd ==
    [][\A i \in SeqInst :
          Commit(i) => get_latest_checkpoint(history') = MaxWindowEnd(run[i].windows)]_vars

\* C4 as amended: the checkpoint is None iff no row carries this engine's
\* generator, and otherwise is the largest observed_at among those rows
\* (soft-deleted ones included); after a run_once that processed at least
\* one window it is the later of the checkpoint before the run and the
\* maximum window end among the windows of that run.
CheckpointIsMaxOwn ==
    LET checkpoint == get_latest_checkpoint(history)
    IN  /\ (checkpoint = None) <=> (OwnRows(history) = {})
        /\ (checkpoint # None) =>
              /\ \E r \in OwnRows(history) : r.observed_at = checkpoint
              /\ \A r \in OwnRows(history) : r.observed_at <= checkpoint

CheckpointAfterCommit ==
    \A i \in SeqInst :
        Commit(i) =>
            get_latest_checkpoint(history')
              = Max(get_latest_checkpoint(history), MaxWindowEnd(run[i].windows))

C4_Checkpoint == [](CheckpointIsMaxOwn) /\ [][CheckpointAfterCommit]_vars

\* A run has committed, the checkpoint is set, and a row of another writer
\* lies beyond it.
C4_Witness ==
    /\ done[1].outcome = "returned"
    /\ done[1].processed > 0
    /\ get_latest_checkpoint(history) # None
    /\ \E r \in history \ OwnRows(history) : r.observed_at > get_latest_checkpoint(history)
    /\ \E r \in OwnRows(history) : r.deleted

\* C5: a run_once called without since, once it has read a checkpoint, holds
\* only windows that end after that checkpoint and are made of events
\* observed at or after it, and stages writes for no other key.
C5_NoReprocessing ==
    \A i \in SeqInst :
        (pc[i] = "process" /\ run[i].sinceArg = None /\ run[i].checkpoint # None) =>
            /\ \A k \in 1 .. Len(run[i].windows) :
                  /\ run[i].windows[k].window_end > run[i].checkpoint
                  /\ \A n \in 1 .. Len(run[i].windows[k].events) :
                        run[i].windows[k].events[n].observed_at >= run[i].checkpoint
            /\ \A k \in 1 .. Len(run[i].session.adds) :
                  run[i].session.adds[k].observed_at > run[i].checkpoint
            /\ \A u \in run[i].session.updates :
                  \A r \in history : r.id = u.id => r.observed_at > run[i].checkpoint

\* A checkpoint-driven run has persisted a window while an eligible event
\* observed before the checkpoint is in the store.
C5_Witness ==
    /\ pc[1] = "process"
    /\ run[1].sinceArg = None
    /\ run[1].checkpoint # None
    /\ run[1].processed > 0
    /\ \E e \in SelectEvents(events, None, run[1].until) : e.observed_at < run[1].checkpoint

\* C6: a run whose explicit or checkpoint-derived since is at or after until
\* returns 0 at once, without an event query and without touching the table
\* or the alert log; a run whose query finds no window returns 0 and leaves
\* the table as it was.  Neither raises, and the checkpoint stays the same.
EmptyRangeReturns ==
    \A i \in SeqInst :
        (/\ runs' = runs + 1
         /\ run'[i].checkpoint = None
         /\ ~(pc'[i] = "fetch"))
        => /\ done'[i] = [outcome |-> "returned", processed |-> 0, queried |-> FALSE]
           /\ history' = history
           /\ alertLog' = alertLog
           /\ get_latest_checkpoint(history') = get_latest_checkpoint(history)

NoWindowReturns ==
    \A i \in SeqInst :
        (/\ Fetch(i)
         /\ SelectEvents(events, run[i].checkpoint, run[i].until) = {})
        => /\ done'[i] = [outcome |-> "returned", processed |-> 0, queried |-> TRUE]
           /\ ~(pc'[i] \in {"fetch", "process", "crashed"})
           /\ history' = history
           /\ history' = run[i].histBefore
           /\ alertLog' = alertLog

C6_NoOpRuns ==
    /\ [](\A i \in SeqInst :
            Busy(i) => ~(run[i].checkpoint # None /\ run[i].checkpoint >= run[i].until))
    /\ [][EmptyRangeReturns]_vars
    /\ [][NoWindowReturns]_vars

\* A run returned 0 without a query although rows and eligible events exist.
C6_Witness ==
    /\ done[1] = [outcome |-> "returned", processed |-> 0, queried |-> FALSE]
    /\ OwnRows(history) # {}
    /\ SelectEvents(events, None, None) # {}

\* C7: when a run_once raises before its commit, a retry with the same
\* arguments over the same events ends in the table that one successful
\* run_once from the table before the failed run ends in, and that table has
\* no two live rows with one key; and a run that commits writes what
\* run_once is defined to write.
RetryConverges ==
    \A i \in SeqInst :
        Raises(i) =>
            LET retried == RunOnceResult(history', events', run[i].sinceArg, run[i].until)
                single == RunOnceResult(run[i].histBefore, events, run[i].sinceArg, run[i].until)
            IN  /\ retried = single
                /\ NoDuplicateKeys(retried)

C7_RetryConverges == [][RetryConverges]_vars /\ [][CommitIsRunOnce]_vars

\* A run raised after persisting a window, over a table that already has
\* rows of this engine, and a retry has work to do.
C7_Witness ==
    /\ done[1].outcome = "raised"
    /\ done[1].processed > 0
    /\ \E r \in OwnRows(history) : Live(r)
    /\ RunOnceResult(history, events, None, Until(None)) # history

\* C8 as claimed: a daemon whose run fails with a storage error keeps
\* running (it goes back to sleep and ticks again).
C8_DaemonSurvivesFailedTick ==
    \A i \in Inst : pc[i] # "crashed"

\* C9 as claimed: with two instances running concurrently, the table never
\* holds two live rows for one (entity, observed_at) key and no run fails
\* because of the overlap.
C9_ConcurrentUpsertSafe ==
    /\ NoDuplicateKeys(history)
    /\ \A i \in Inst : done[i].outcome # "multiple_results"

\* The number of alert log lines that report the window with this key.
AlertCount(key) == Cardinality({ k \in 1 .. Len(alertKeys) : alertKeys[k] = key })

AlertPerProcessedWindow ==
    \A i \in SeqInst :
        (pc[i] = "process" /\ run'[i].processed = run[i].processed + 1) =>
            LET w == run[i].windows[run[i].idx]
                score == analyze(w.entity_id, w.window_start, w.window_end, w.events).risk_score
                stats == IF w.entity_id \in DOMAIN run[i].cache
                         THEN run[i].cache[w.entity_id]
                         ELSE QueryStats(BaselineRows(history, w.entity_id, w.window_end))
            IN  IF ExceedsThreshold(score, stats)
                THEN /\ Len(alertLog') = Len(alertLog) + 1
                     /\ SubSeq(alertLog', 1, Len(alertLog)) = alertLog
                     /\ alertLog'[Len(alertLog')].entity_id = w.entity_id
                     /\ alertLog'[Len(alertLog')].risk_score = score
                     /\ alertLog'[Len(alertLog')].baseline_avg = stats.avg
                     /\ alertLog'[Len(alertLog')].baseline_sigma_sq = stats.sigma_sq
                ELSE alertLog' = alertLog

AlertOnlyWhenProcessing ==
    (\A i \in SeqInst : ~(pc[i] = "process" /\ run'[i].processed = run[i].processed + 1))
        => alertLog' = alertLog

DayOf(t) == t \div TicksPerDay
Midnight(t) == DayOf(t) * TicksPerDay

\* The events a query over [since, until) is to select.
Eligible(evs, since, until) ==
    { e \in evs :
        /\ ~e.deleted
        /\ e.status = "active"
        /\ e.entity_id # None
        /\ (since = None \/ since <= e.observed_at)
        /\ (until = None \/ e.observed_at < until) }

\* The <<window, position>> pairs of a window list.
Places(ws) ==
    { p \in (1 .. Len(ws)) \X (1 .. Cardinality(EventPool)) : p[2] <= Len(ws[p[1]].events) }

\* C11: in every list fetch_entity_event_windows returns, each window starts
\* at a UTC midnight and ends one day later, holds only events of its entity
\* observed in [window_start, window_end), an event observed at midnight is
\* in the window that starts at that instant, and two events of one entity
\* are in the same window iff they were observed on the same UTC day.
C11_Windowing ==
    LET ws == query.last.windows
    IN  /\ \A k \in 1 .. Len(ws) :
              /\ ws[k].window_start = Midnight(ws[k].window_start)
              /\ ws[k].window_end = ws[k].window_start + TicksPerDay
        /\ \A p \in Places(ws) :
              LET w == ws[p[1]]
                  e == w.events[p[2]]
              IN  /\ e.entity_id = w.entity_id
                  /\ w.window_start <= e.observed_at
                  /\ e.observed_at < w.window_end
                  /\ (e.observed_at = Midnight(e.observed_at)
                        => w.window_start = e.observed_at)
        /\ \A p \in Places(ws), q \in Places(ws) :
              LET e1 == ws[p[1]].events[p[2]]
                  e2 == ws[q[1]].events[q[2]]
              IN  e1.entity_id = e2.entity_id =>
                    ((p[1] = q[1]) <=> (DayOf(e1.observed_at) = DayOf(e2.observed_at)))

\* A query returned two windows of one entity: a day with an event at its
\* midnight and one later, and the next day, opened by an event observed
\* exactly at its midnight.
C11_Witness ==
    /\ query.last.op = "fetch"
    /\ \E k \in 1 .. Len(query.last.windows) - 1 :
          LET w == query.last.windows[k]
              next == query.last.windows[k + 1]
          IN  /\ w.entity_id = next.entity_id
              /\ Len(w.events) = 2
              /\ w.events[1].observed_at = w.window_start
              /\ w.events[2].observed_at > w.window_start
              /\ next.window_start = w.window_end
              /\ next.events[1].observed_at = next.window_start

\* C12: the events fetch_entity_event_windows places into windows are
\* exactly the non-deleted, active events with an entity and with
\* since <= observed_at < until (a missing bound is open); each of them has
\* exactly one place; and the features of a window count and rate only such
\* events.
C12_EventSelection ==
    LET ws == query.last.windows
        chosen == Eligible(events, query.last.since, query.last.until)
    IN  query.last.op = "fetch" =>
          /\ { ws[p[1]].events[p[2]] : p \in Places(ws) } = chosen
          /\ \A e \in chosen :
                Cardinality({ p \in Places(ws) : ws[p[1]].events[p[2]] = e }) = 1
          /\ \A k \in 1 .. Len(ws) :
                LET group == { e \in chosen :
                                 /\ e.entity_id = ws[k].entity_id
                                 /\ DayOf(e.observed_at) = DayOf(ws[k].window_start) }
                    rated == { _severity_from_event(e) : e \in group } \ {None}
                    features == extract(ws[k].events)
                IN  /\ features.event_count = Cardinality(group)
                    /\ features.highest_severity
                         = IF rated = {} THEN None ELSE MaxOfSet(rated)
                    /\ Range(features.event_types) = { e.event_type : e \in group }

\* A query with both bounds returned a window from which an earlier event
\* of the same day was cut off and in whose day a soft-deleted event of
\* higher severity lies, while an inactive and an entity-less event are
\* stored too.
C12_Witness ==
    /\ query.last.op = "fetch"
    /\ query.last.since # None
    /\ query.last.until # None
    /\ \E e \in events : e.status # "active"
    /\ \E e \in events : e.entity_id = None
    /\ \E k \in 1 .. Len(query.last.windows) :
          LET w == query.last.windows[k]
          IN  /\ \E e \in events :
                    /\ e.deleted
                    /\ e.entity_id = w.entity_id
                    /\ DayOf(e.observed_at) = DayOf(w.window_start)
                    /\ _severity_from_event(e) > extract(w.events).highest_severity
              /\ \E e \in Eligible(events, None, None) :
                    /\ e.entity_id = w.entity_id
                    /\ DayOf(e.observed_at) = DayOf(w.window_start)
                    /\ e.observed_at < query.last.since

\* C13: the list fetch_entity_event_windows returns has one window for each
\* (entity, day) that has a selected event and no other, no window is
\* empty, and the windows ascend strictly by (entity id, window start), so
\* no two share a key.
C13_WindowListShape ==
    LET ws == query.last.windows
    IN  query.last.op = "fetch" =>
          /\ { <<ws[k].entity_id, ws[k].window_start>> : k \in 1 .. Len(ws) }
               = { <<e.entity_id, Midnight(e.observed_at)>> :
                      e \in Eligible(events, query.last.since, query.last.until) }
          /\ \A k \in 1 .. Len(ws) : Len(ws[k].events) > 0
          /\ \A k \in 1 .. Len(ws) - 1 :
                \/ ws[k].entity_id < ws[k + 1].entity_id
                \/ /\ ws[k].entity_id = ws[k + 1].entity_id
                   /\ ws[k].window_start < ws[k + 1].window_start

\* A query returned three windows: two days of one entity, then another
\* entity.
C13_Witness ==
    /\ query.last.op = "fetch"
    /\ Len(query.last.windows) = 3
    /\ query.last.windows[1].entity_id = query.last.windows[2].entity_id
    /\ query.last.windows[2].entity_id < query.last.windows[3].entity_id

\* C14 as claimed: whenever two queries over the same events both return a
\* window for one (entity, day), the two windows have the same bounds and
\* the same events.
C14_SameGroupingAcrossRanges ==
    LET ws1 == query.prev.windows
        ws2 == query.last.windows
    IN  \A k1 \in 1 .. Len(ws1), k2 \in 1 .. Len(ws2) :
            (/\ ws1[k1].entity_id = ws2[k2].entity_id
             /\ ws1[k1].window_start = ws2[k2].window_start)
            => /\ ws1[k1].window_end = ws2[k2].window_end
               /\ Range(ws1[k1].events) = Range(ws2[k2].events)

\* ------------------------------------------------ claims on the baseline
\* The rows a baseline for (entity, until) is to be taken over.
InWindow(hist, entity_id, until) ==
    { r \in hist :
        /\ r.entity_id = entity_id
        /\ ~r.deleted
        /\ until - (window_days * TicksPerDay) <= r.observed_at
        /\ r.observed_at < until }

\* stats holds the mean of the rows' scores and the mean of their squared
\* deviations from it (the population variance); over no row, zero for both.
IsMeanVarOf(stats, rows) ==
    LET n == Cardinality(rows)
        sum == SumOf([r \in rows |-> r.risk_score], rows)
        dev == SumOf([r \in rows |-> ((n * r.risk_score) - sum) * ((n * r.risk_score) - sum)],
                     rows)
    IN  IF n = 0 THEN stats = BaselineStats(<<0, 1>>, <<0, 1>>)
        ELSE /\ stats.avg[2] > 0
             /\ stats.avg[1] * n = sum * stats.avg[2]
             /\ stats.sigma_sq[2] > 0
             /\ stats.sigma_sq[1] * n * n * n = dev * stats.sigma_sq[2]

\* C15: when the first get_baseline(entity, until) call of a calculator
\* returns, its value is the average and the population deviation of exactly
\* the entity's non-deleted rows with until - window_days <= observed_at <
\* until, as the table holds them at the call.
FirstBaselineCall ==
    (CalcGetBaseline /\ ~calc'.last.cached /\ ~calc'.last.raised)
        => IsMeanVarOf(calc'.last.stats,
                       InWindow(history, calc'.last.entity_id, calc'.last.until))

StagedReason(i, k) ==
    LET w == run[i].windows[k]
        rows == { r \in history : Live(r) /\ KeyOf(r) = <<w.entity_id, w.window_end>> }
    IN  IF rows # {}
        THEN (CHOOSE u \in run[i].session.updates : \E r \in rows : r.id = u.id).reason
        ELSE (CHOOSE a \in Range(run[i].session.adds) :
                 KeyOf(a) = <<w.entity_id, w.window_end>>).reason

\* The end of the first window of the entity among the windows of a run.
FirstEnd(i, entity_id) ==
    LET ends == { run[i].windows[k].window_end :
                    k \in { j \in 1 .. Len(run[i].windows) :
                              run[i].windows[j].entity_id = entity_id } }
    IN  CHOOSE t \in ends : \A x \in ends : t <= x

\* C16: the baseline a run records for a window it has scored is the mean
\* and deviation of rows that were all observed strictly before that
\* window's end (those in the baseline window of the entity's first window
\* of the run); the row of the window itself, whether an earlier run
\* committed it or this run staged it, is not among them.
C16_BaselineExcludesWindow ==
    \A i \in SeqInst :
        pc[i] = "process" =>
            \A k \in 1 .. run[i].idx - 1 :
                LET w == run[i].windows[k]
                    first == FirstEnd(i, w.entity_id)
                    rows == InWindow(history, w.entity_id, first)
                    baseline == StagedReason(i, k).baseline
                IN  /\ first <= w.window_end
                    /\ \A r \in rows :
                          /\ r.observed_at < w.window_end
                          /\ KeyOf(r) # <<w.entity_id, w.window_end>>
                    /\ IsMeanVarOf(BaselineStats(baseline.avg, baseline.sigma_sq), rows)

\* A run has scored a window that already has a committed row, against a
\* baseline taken from the row of the day before.
C16_Witness ==
    /\ pc[1] = "process"
    /\ \E k \in 1 .. run[1].idx - 1 :
          LET w == run[1].windows[k]
          IN  /\ \E r \in history : Live(r) /\ KeyOf(r) = <<w.entity_id, w.window_end>>
              /\ InWindow(history, w.entity_id, w.window_end) # {}
              /\ StagedReason(1, k).baseline.avg # <<0, 1>>

\* C17: a call for an entity the calculator has cached returns the cached
\* value without a query, whatever until is and whatever the table holds
\* by then; no call changes or drops an entry, nor adds one for another
\* entity; what a call returns is the entity's entry from then on.
Memoized ==
    (CalcGetBaseline \/ CalcIsAnomalous) =>
        LET entity_id == calc'.last.entity_id
        IN  /\ entity_id \in DOMAIN calc.cache =>
                  /\ ~calc'.last.raised
                  /\ calc'.last.stats = calc.cache[entity_id]
            /\ \A e \in DOMAIN calc.cache :
                  e \in DOMAIN calc'.cache /\ calc'.cache[e] = calc.cache[e]
            /\ DOMAIN calc'.cache \subseteq DOMAIN calc.cache \cup {entity_id}
            /\ ~calc'.last.raised =>
                  /\ entity_id \in DOMAIN calc'.cache
                  /\ calc'.cache[entity_id] = calc'.last.stats

C17_Memoization == [][Memoized]_vars

\* A call with another until than the first returned the cached value
\* although a query would now give another one, and the other entity has
\* an entry of its own.
C17_Witness ==
    /\ calc.last.op # "none"
    /\ calc.last.cached
    /\ ~calc.last.raised
    /\ DOMAIN calc.cache = Entities
    /\ calc.cache[1] # calc.cache[2]
    /\ ~IsMeanVarOf(calc.last.stats,
                    InWindow(history, calc.last.entity_id, calc.last.until))
    /\ \E until \in CalcUntils \ {calc.last.until} :
          IsMeanVarOf(calc.last.stats, InWindow(history, calc.last.entity_id, until))

\* The non-negative integer whose square is n.
Root(n) == CHOOSE k \in 0 .. n : k * k = n

C19_EmptyBaselineIsZero ==
    (/\ calc.last.op # "none"
     /\ ~calc.last.cached
     /\ InWindow(history, calc.last.entity_id, calc.last.until) = {})
    => /\ ~calc.last.raised
       /\ calc.last.stats = BaselineStats(<<0, 1>>, <<0, 1>>)
       /\ calc.last.op = "is_anomalous" => calc.last.delta = <<calc.last.risk_score, 1>>

\* C20 as claimed: every score the scoring strategy returns lies in
\* [0, 100].
C20_ScoreWithinBounds ==
    pipe.op # "none" => (0 <= pipe.risk_score /\ pipe.risk_score <= 100)

\* C21 as claimed: for every input the scoring strategy returns
\* min(min(2 * event_count, 40) + (3 * highest_severity when one is present)
\* + 30 * number of triggered rules, 100), as the double it hands back: the
\* integer of the formula, at no distance from it.
C21_ScoreFormula ==
    pipe.op = "calculate_score" =>
        /\ pipe.risk_score =
              Min(Min(2 * pipe.features.event_count, 40)
                  + (IF pipe.features.highest_severity # None
                     THEN 3 * pipe.features.highest_severity ELSE 0)
                  + (30 * Len(pipe.rule_evaluation.triggered_rules)),
                  100)
        /\ pipe.ulps = 0

\* C22: the default evaluator triggers high_event_volume exactly when the
\* event count is above 10 and high_severity_detected exactly when a highest
\* severity is present and at least 8; it names no other rule and no rule
\* twice, and its metadata holds the count under event_count and the severity
\* under highest_severity for the rules that triggered, and nothing else.
C22_RuleEvaluation ==
    pipe.op = "evaluate" =>
        LET triggered == pipe.rule_evaluation.triggered_rules
            count == pipe.features.event_count
            severity == pipe.features.highest_severity
            volume == \E k \in 1 .. Len(triggered) : triggered[k] = "high_event_volume"
            severe == \E k \in 1 .. Len(triggered) : triggered[k] = "high_severity_detected"
        IN  /\ volume <=> count > 10
            /\ severe <=> (severity # None /\ severity >= 8)
            /\ Range(triggered) \subseteq {"high_event_volume", "high_severity_detected"}
            /\ \A j, k \in 1 .. Len(triggered) : triggered[j] = triggered[k] => j = k
            /\ pipe.rule_evaluation.metadata =
                  { m \in {<<"event_count", count>>, <<"highest_severity", severity>>} :
                      \/ m[1] = "event_count" /\ volume
                      \/ m[1] = "highest_severity" /\ severe }

\* Both rules trigger together: eleven events with a highest severity of 8.
C22_Witness ==
    /\ pipe.op = "evaluate"
    /\ pipe.features.event_count = 11
    /\ pipe.features.highest_severity = 8
    /\ Len(pipe.rule_evaluation.triggered_rules) = 2

\* The severity keys of a payload that are present, top level first.
PresentKeys(payload) ==
    IF ~payload.isdict THEN << >>
    ELSE (IF payload.severity.present THEN <<payload.severity>> ELSE << >>)
         \o (IF payload.data_isdict /\ payload.data_severity.present
             THEN <<payload.data_severity>> ELSE << >>)

\* The severity of an event by the order of its sources: the first severity
\* key present in its payloads (top level before data), whatever integer it
\* holds; without any, the integer part of the risk contribution; else None.
SeverityByOrder(event) ==
    LET keys == PresentKeys(event.normalized_payload) \o PresentKeys(event.original_payload)
    IN  IF Len(keys) > 0 THEN keys[1].val
        ELSE IF event.risk_score # None THEN IntCast(event.risk_score)
        ELSE None

\* C23 as claimed: the severity of an event whose severity keys all hold
\* integers is the one of its highest-priority source, 0 included; a lower
\* source never replaces it.
C23_SeverityOrder ==
    (/\ pipe.op = "severity"
     /\ LET e == pipe.events[1]
            keys == PresentKeys(e.normalized_payload) \o PresentKeys(e.original_payload)
        IN  \A k \in 1 .. Len(keys) : keys[k].numeric)
    => pipe.severity = SeverityByOrder(pipe.events[1])

\* The highest severity of a window when the events without a usable
\* severity count as having none.
HighestUsable(evs) ==
    LET usable == { e \in Range(evs) : e \notin UnusableEvents }
    IN  IF usable = {} THEN None
        ELSE MaxOfSet({ SeverityByOrder(e) : e \in usable })

\* One turn of the loop takes the window to the session: its row is staged
\* with the count of its events, with the highest severity taken over the
\* usable ones (None when there is none) and, without a severity, with the
\* score of the count alone; the commit then leaves a live row for every
\* window of the run.
MalformedWindowPersisted ==
    \A i \in SeqInst :
        /\ ProcessWindow(i) =>
              LET w == run[i].windows[run[i].idx]
              IN  /\ pc'[i] = "process"
                  /\ run'[i].idx = run[i].idx + 1
                  /\ \E r \in ApplySession(history', run'[i].session) :
                        /\ Live(r)
                        /\ KeyOf(r) = <<w.entity_id, w.window_end>>
                        /\ r.reason.event_count = Len(w.events)
                        /\ r.reason.highest_severity = HighestUsable(w.events)
                        /\ HighestUsable(w.events) = None =>
                              r.risk_score = Min(2 * Len(w.events), 40)
        /\ Commit(i) =>
              \A k \in 1 .. Len(run[i].windows) :
                  \E r \in history' :
                      /\ Live(r)
                      /\ KeyOf(r) = <<run[i].windows[k].entity_id, run[i].windows[k].window_end>>
                      /\ r.reason.highest_severity = HighestUsable(run[i].windows[k].events)

\* C24 as claimed: a window of events with missing payloads, missing severity
\* keys or severities that are not numbers never aborts: extraction returns,
\* those severities count as absent, and the window is scored and persisted.
C24_MalformedNeverAborts == [][MalformedWindowPersisted]_vars

\* C25: extract called with no event raises at once and yields no features,
\* and called with events it returns their count; every window a run hands
\* to the pipeline holds at least one event, so no run ends by that error.
C25_EmptyInputUnreachable ==
    /\ pipe.op = "extract" =>
          IF Len(pipe.events) = 0
          THEN pipe.raised /\ pipe.features = NoFeatures
          ELSE ~pipe.raised /\ pipe.features.event_count = Len(pipe.events)
    /\ \A i \in SeqInst :
          /\ \A k \in 1 .. Len(run[i].windows) : Len(run[i].windows[k].events) >= 1
          /\ done[i].outcome # "value_error"

\* extract has raised on an empty sequence, and a run has processed windows
\* and returned.
C25_Witness ==
    /\ pipe.op = "extract"
    /\ Len(pipe.events) = 0
    /\ pipe.raised
    /\ done[1].outcome = "returned"
    /\ done[1].processed > 0

\* C26: when the daemon's sleep ends, the loop's since is unset whatever
\* run_forever was started with, and the run it starts takes its lower bound
\* from get_latest_checkpoint() as the table is at that moment (returning 0
\* at once when that checkpoint is not before until); the first run of the
\* loop takes the since it was given when there is one; the events a daemon
\* run fetches are none before its lower bound.
DaemonResumes ==
    \A i \in SeqInst :
        /\ DaemonTick(i, {}) =>
              LET checkpoint == get_latest_checkpoint(history)
              IN  /\ run[i].sinceArg = None
                  /\ IF NothingToDo(checkpoint, Until(run[i].untilArg))
                     THEN pc'[i] = "sleeping" /\ done'[i] = Ended("returned", 0, FALSE)
                     ELSE /\ pc'[i] = "fetch"
                          /\ run'[i].sinceArg = None
                          /\ run'[i].checkpoint = checkpoint
        /\ (RunForever(i, {}) /\ pc'[i] = "fetch") =>
              run'[i].checkpoint = IF run'[i].sinceArg # None THEN run'[i].sinceArg
                                   ELSE get_latest_checkpoint(history)
        /\ (Fetch(i) /\ run[i].daemon /\ run[i].checkpoint # None) =>
              \A k \in 1 .. Len(run'[i].windows) :
                  \A e \in Range(run'[i].windows[k].events) :
                      e.observed_at >= run[i].checkpoint

C26_DaemonResumes == [][DaemonResumes]_vars

\* A later run of a daemon has started from the checkpoint its earlier run
\* committed, and has fetched windows.
C26_Witness ==
    /\ run[1].daemon
    /\ pc[1] = "process"
    /\ runs = 2
    /\ run[1].sinceArg = None
    /\ run[1].checkpoint = 2
    /\ done[1].outcome = "returned"
    /\ done[1].processed > 0

\* C27: an interrupt that reaches run_forever, in its sleep or inside a run,
\* makes it return and not raise; the table is then the one the last commit
\* left, which for an interrupted run is the table the run began with: none
\* of the windows it had staged is visible.
InterruptLeavesLastCommit ==
    \A i \in SeqInst :
        Interrupt(i) =>
            /\ pc'[i] = "stopped"
            /\ ~Raises(i)
            /\ history' = history
            /\ Busy(i) =>
                  /\ history' = run[i].histBefore
                  /\ done'[i].outcome = "interrupted"
            /\ ~Busy(i) => done' = done

C27_CleanInterruption == [][InterruptLeavesLastCommit]_vars

\* A daemon was interrupted inside a run that had already staged a window.
C27_Witness ==
    /\ pc[1] = "stopped"
    /\ done[1].outcome = "interrupted"
    /\ done[1].processed > 0

\* C28: no step of a run_once, whether it returns 0, commits or fails, and
\* no step of the daemon around it, changes the stored events: whenever the
\* event store changes, the ingestion side has added an event and the
\* analyzer has not moved.
EventsReadOnly ==
    events' # events =>
        /\ \E e \in EventPool \ events : events' = events \cup {e}
        /\ UNCHANGED <<history, alertLog, alertKeys, pc, run, done, runs>>

C28_EventsReadOnly == [][EventsReadOnly]_vars

\* With events in the store, one run has committed windows and a later run
\* has raised.
C28_Witness ==
    /\ runs = 2
    /\ done[1].outcome \in {"raised", "multiple_results"}
    /\ \E r \in history : Live(r) /\ r.reason.generator = REASON_GENERATOR
    /\ events # FixedEvents

\* The events of the windows a step leaves in the locals of instance i.
Fetched(i) == UNION { Range(run'[i].windows[k].events) : k \in 1 .. Len(run'[i].windows) }

\* C29: a run called without until takes the start of the current UTC day as
\* its exclusive upper bound, so no event it fetches was observed on the
\* current day; a run called without since takes get_latest_checkpoint() as
\* its lower bound and fetches nothing observed before it; and when there is
\* no checkpoint it fetches every eligible event before until, the earliest
\* one included.
DefaultRange ==
    \A i \in SeqInst :
        /\ (RunOnce(i, {}) /\ pc'[i] = "fetch") =>
              /\ run'[i].untilArg = None => run'[i].until = today * TicksPerDay
              /\ run'[i].sinceArg = None =>
                    run'[i].checkpoint = get_latest_checkpoint(history)
        /\ Fetch(i) =>
              /\ run[i].untilArg = None =>
                    \A e \in Fetched(i) : DayOf(e.observed_at) < today
              /\ (run[i].sinceArg = None /\ run[i].checkpoint # None) =>
                    \A e \in Fetched(i) : e.observed_at >= run[i].checkpoint
              /\ (run[i].sinceArg = None /\ run[i].checkpoint = None) =>
                    Fetched(i) = Eligible(events, None, run[i].until)

C29_DefaultRange == [][DefaultRange]_vars

\* A run with default bounds and no checkpoint has fetched the earliest
\* event of the store and left out the events of the current day.
C29_Witness ==
    /\ pc[1] = "process"
    /\ run[1].sinceArg = None
    /\ run[1].untilArg = None
    /\ run[1].checkpoint = None
    /\ today = 1
    /\ \E e \in Eligible(events, None, None) : DayOf(e.observed_at) = today
    /\ \E k \in 1 .. Len(run[1].windows) :
          \E e \in Range(run[1].windows[k].events) :
              \A x \in Eligible(events, None, None) : e.observed_at <= x.observed_at

\* The (entity, UTC day) groups of the eligible events of a range.
Groups(evs, since, until) ==
    { <<e.entity_id, DayOf(e.observed_at)>> : e \in Eligible(evs, since, until) }

\* The fetch of a run yields one window per group of its range, in (entity,
\* window start) order; each turn of the loop takes the next window and adds
\* one to the count without raising; the commit returns the number of groups
\* and leaves exactly one live row per group, observed at the group's window
\* end.
CountsEveryGroup ==
    \A i \in SeqInst :
        /\ Fetch(i) =>
              LET groups == Groups(events, run[i].checkpoint, run[i].until)
              IN  IF groups = {}
                  THEN done'[i] = Ended("returned", 0, TRUE)
                  ELSE /\ pc'[i] = "process"
                       /\ Len(run'[i].windows) = Cardinality(groups)
                       /\ \A k \in 1 .. Len(run'[i].windows) :
                             <<run'[i].windows[k].entity_id,
                               DayOf(run'[i].windows[k].window_start)>> \in groups
                       /\ \A j, k \in 1 .. Len(run'[i].windows) :
                             j < k =>
                                \/ run'[i].windows[j].entity_id < run'[i].windows[k].entity_id
                                \/ /\ run'[i].windows[j].entity_id = run'[i].windows[k].entity_id
                                   /\ run'[i].windows[j].window_start
                                         < run'[i].windows[k].window_start
        /\ ProcessWindow(i) =>
              /\ pc'[i] = "process"
              /\ run'[i].idx = run[i].idx + 1
              /\ run'[i].processed = run[i].processed + 1
              /\ run[i].processed = run[i].idx - 1
        /\ Commit(i) =>
              /\ done'[i] = Ended("returned", Len(run[i].windows), TRUE)
              /\ \A k \in 1 .. Len(run[i].windows) :
                    Cardinality({ r \in history' :
                                    /\ Live(r)
                                    /\ r.entity_id = run[i].windows[k].entity_id
                                    /\ r.observed_at = run[i].windows[k].window_end }) = 1

\* C30 as claimed: a run_once over a range with k groups of eligible events
\* completes without error, returns k and commits one record per group at
\* the group's window end, taking the windows one at a time in order.
C30_ProcessedCount == [][CountsEveryGroup]_vars

\* ------------------------------------------- the stages of one analyze call
\* The statements of analyze in their order: extract, evaluate,
\* calculate_score, then the construction of the AnalyzerResult.
NextStage_skip(stage) ==
    CASE stage = "extract" -> "calculate_score"
      [] stage = "evaluate" -> "calculate_score"
      [] stage = "calculate_score" -> "return"

NextStage(stage) ==
    CASE stage = "extract" -> "evaluate"
      [] stage = "evaluate" -> "calculate_score"
      [] stage = "calculate_score" -> "return"

\* The windows analyze is called with: those of PipeWindows and, as a caller
\* other than the service may do, one without events.
StageWindows == PipeWindows \cup {EntityEventWindow(1, 0, TicksPerDay, << >>)}

\* pipeline.analyze(entity_id, window_start, window_end, events) is entered;
\* calls lists the stage calls made so far, each with what it was given and
\* what it returned, and result holds the AnalyzerResult once it is returned.
AnalyzeCall ==
    /\ IF pipe.op = "none" THEN TRUE ELSE pipe.stage \in {"returned", "raised"}
    /\ \E w \in StageWindows :
          pipe' = [op |-> "analyze_call", stage |-> "extract",
                   entity_id |-> w.entity_id, window_start |-> w.window_start,
                   window_end |-> w.window_end, events |-> w.events,
                   features |-> NoFeatures,
                   rule_evaluation |-> NoPipe.rule_evaluation,
                   risk_score |-> 0, calls |-> << >>, result |-> {}]
    /\ UNCHANGED <<events, history, dialect, calc, query, service>>

\* features = self.feature_extractor.extract(events); the ValueError of an
\* empty sequence leaves analyze.
StageExtract ==
    /\ pipe.op = "analyze_call"
    /\ pipe.stage = "extract"
    /\ pipe' = IF extract_raises(pipe.events)
               THEN [pipe EXCEPT !.stage = "raised",
                                 !.calls = Append(@, [stage |-> "extract",
                                                      events |-> pipe.events,
                                                      raised |-> TRUE])]
               ELSE [pipe EXCEPT !.stage = NextStage("extract"),
                                 !.features = extract(pipe.events),
                                 !.calls = Append(@, [stage |-> "extract",
                                                      events |-> pipe.events,
                                                      raised |-> FALSE,
                                                      returned |-> extract(pipe.events)])]
    /\ UNCHANGED <<events, history, dialect, calc, query, service>>

\* rule_evaluation = self.rule_evaluator.evaluate(entity_id, features, events).
StageEvaluate ==
    /\ pipe.op = "analyze_call"
    /\ pipe.stage = "evaluate"
    /\ LET returned == evaluate(pipe.entity_id, pipe.features, pipe.events)
       IN  pipe' = [pipe EXCEPT !.stage = NextStage("evaluate"),
                                !.rule_evaluation = returned,
                                !.calls = Append(@, [stage |-> "evaluate",
                                                     entity_id |-> pipe.entity_id,
                                                     features |-> pipe.features,
                                                     events |-> pipe.events,
                                                     returned |-> returned])]
    /\ UNCHANGED <<events, history, dialect, calc, query, service>>

\* risk_score = self.scoring_strategy.calculate_score(entity_id, features,
\* rule_evaluation).
StageScore ==
    /\ pipe.op = "analyze_call"
    /\ pipe.stage = "calculate_score"
    /\ LET returned == calculate_score(pipe.entity_id, pipe.features, pipe.rule_evaluation)
       IN  pipe' = [pipe EXCEPT !.stage = NextStage("calculate_score"),
                                !.risk_score = returned,
                                !.calls = Append(@, [stage |-> "calculate_score",
                                                     entity_id |-> pipe.entity_id,
                                                     features |-> pipe.features,
                                                     rule_evaluation |-> pipe.rule_evaluation,
                                                     returned |-> returned])]
    /\ UNCHANGED <<events, history, dialect, calc, query, service>>

\* return AnalyzerResult(...).
AnalyzeReturn ==
    /\ pipe.op = "analyze_call"
    /\ pipe.stage = "return"
    /\ pipe' = [pipe EXCEPT !.stage = "returned",
                            !.result = {[entity_id |-> pipe.entity_id,
                                         window_start |-> ensure_utc(pipe.window_start),
                                         window_end |-> ensure_utc(pipe.window_end),
                                         features |-> pipe.features,
                                         rule_evaluation |-> pipe.rule_evaluation,
                                         risk_score |-> pipe.risk_score]}]
    /\ UNCHANGED <<events, history, dialect, calc, query, service>>

NextStages ==
    \/ AnalyzeCall
    \/ StageExtract
    \/ StageEvaluate
    \/ StageScore
    \/ AnalyzeReturn

SpecStages == InitPipe /\ [][NextStages]_vars

\* The names of the stage calls made, in order.
StagesCalled(calls) == [k \in 1 .. Len(calls) |-> calls[k].stage]

\* C31: at every point of an analyze call the stages called so far are the
\* leading ones of extract, evaluate, calculate_score, each once; evaluate is
\* given the features extract returned and the events, calculate_score is
\* given those features and the evaluation evaluate returned; the result
\* analyze returns carries exactly those features, that evaluation and that
\* score, after all three stages; and when extract raises, analyze ends
\* with no other stage called.
C31_StageOrdering ==
    pipe.op = "analyze_call" =>
        LET calls == pipe.calls
            order == <<"extract", "evaluate", "calculate_score">>
        IN  /\ Len(calls) <= 3
            /\ StagesCalled(calls) = SubSeq(order, 1, Len(calls))
            /\ Len(calls) = (CASE pipe.stage = "extract" -> 0
                               [] pipe.stage \in {"evaluate", "raised"} -> 1
                               [] pipe.stage = "calculate_score" -> 2
                               [] pipe.stage \in {"return", "returned"} -> 3)
            /\ Len(calls) >= 1 => calls[1].events = pipe.events
            /\ pipe.stage = "raised" <=> (Len(calls) >= 1 /\ calls[1].raised)
            /\ Len(calls) >= 2 =>
                  /\ calls[2].features = calls[1].returned
                  /\ calls[2].events = pipe.events
                  /\ calls[2].entity_id = pipe.entity_id
            /\ Len(calls) >= 3 =>
                  /\ calls[3].features = calls[1].returned
                  /\ calls[3].rule_evaluation = calls[2].returned
            /\ pipe.stage = "returned" =>
                  /\ Cardinality(pipe.result) = 1
                  /\ \A result \in pipe.result :
                        /\ result.features = calls[1].returned
                        /\ result.rule_evaluation = calls[2].returned
                        /\ result.risk_score = calls[3].returned
                        /\ result.entity_id = pipe.entity_id
                        /\ result = analyze(pipe.entity_id, pipe.window_start,
                                            pipe.window_end, pipe.events)
            /\ pipe.stage # "returned" => pipe.result = {}

\* analyze has returned the result of a window whose severity triggered a
\* rule that the score counts.
C31_Witness ==
    /\ pipe.op = "analyze_call"
    /\ pipe.stage = "returned"
    /\ Len(pipe.events) >= 2
    /\ \E result \in pipe.result :
          /\ result.rule_evaluation.triggered_rules = <<"high_severity_detected">>
          /\ result.risk_score = Min(2 * Len(pipe.events), 40) + 27 + 30

\* ------------------------------------------ the extractor on any sequence
\* The sequences extract is called with: up to MaxStored distinct events in
\* any order, whatever their entity and day.
ExtractSequences ==
    LET pool == PipeEvents \cup SeverityEvents
    IN  UNION { { s \in [1 .. n -> pool] : \A j, k \in 1 .. n : s[j] = s[k] => j = k } :
                  n \in 1 .. MaxStored }

\* extractor.extract(events), called once on a sequence in any order.
ExtractAny ==
    /\ pipe.op = "none"
    /\ \E evs \in ExtractSequences :
          pipe' = [NoPipe EXCEPT !.op = "extract", !.events = evs,
                                 !.features = extract(evs)]
    /\ UNCHANGED <<events, history, dialect, calc, query, service>>

SpecExtract == InitPipe /\ [][ExtractAny]_vars

\* The features are the aggregates of the events when each event has the
\* severity sev gives it: the count, the largest severity (None without
\* any), the latest observed_at, and the distinct event types in ascending
\* order.
IsAggregateOf(features, evs, sev(_)) ==
    LET resolved == { sev(evs[k]) : k \in 1 .. Len(evs) } \ {None}
        types == features.event_types
    IN  /\ features.event_count = Len(evs)
        /\ features.event_count >= 1
        /\ IF resolved = {} THEN features.highest_severity = None
           ELSE /\ features.highest_severity \in resolved
                /\ \A s \in resolved : s <= features.highest_severity
        /\ \E k \in 1 .. Len(evs) : features.last_observed_at = evs[k].observed_at
        /\ \A k \in 1 .. Len(evs) : evs[k].observed_at <= features.last_observed_at
        /\ Range(types) = { evs[k].event_type : k \in 1 .. Len(evs) }
        /\ \A k \in 1 .. Len(types) - 1 :
              EventTypeRank[types[k]] < EventTypeRank[types[k + 1]]

\* The severity an event resolves to: that of the first of its sources
\* (normalized payload, original payload, risk contribution) that yields an
\* integer, 0 included; a source that yields none is passed over.
ResolvedSeverity(event) ==
    LET a == _extract_severity_from_payload(event.normalized_payload)
        b == _extract_severity_from_payload(event.original_payload)
    IN  IF a # None THEN a
        ELSE IF b # None THEN b
        ELSE IF event.risk_score # None THEN IntCast(event.risk_score)
        ELSE None

\* C32 as claimed: for every non-empty sequence of events extract returns
\* the number of events, the maximum of the severities the events resolve to
\* or None when no event resolves to one, the latest observed_at, and the
\* sorted list of the distinct event types.
C32_FeatureAggregates ==
    pipe.op = "extract" => IsAggregateOf(pipe.features, pipe.events, ResolvedSeverity)

\* A reason payload with the keys of a daily rollup (the baseline's sigma is
\* carried as its square under sigma_sq).
HasRollupShape(reason) ==
    /\ DOMAIN reason = {"generator", "kind", "window_start", "window_end", "event_count",
                        "highest_severity", "last_observed_at", "rules", "baseline"}
    /\ reason.generator = REASON_GENERATOR
    /\ reason.kind = "daily_rollup"
    /\ DOMAIN reason.rules = {"triggered", "metadata"}
    /\ DOMAIN reason.baseline = {"avg", "sigma_sq", "delta", "is_anomalous"}

CheckpointMonotone ==
    LET before == get_latest_checkpoint(history)
        after == get_latest_checkpoint(history')
    IN  before # None => (after # None /\ after >= before)

C34_CheckpointMonotone == [][CheckpointMonotone]_vars

\* A run called with a since behind the checkpoint is about to commit
\* windows that all end before the checkpoint, at least one of them new.
C34_Witness ==
    /\ pc[1] = "process"
    /\ run[1].idx > Len(run[1].windows)
    /\ run[1].sinceArg # None
    /\ get_latest_checkpoint(history) # None
    /\ MaxWindowEnd(run[1].windows) < get_latest_checkpoint(history)
    /\ Len(run[1].session.adds) >= 1
    /\ \E r \in OwnRows(history) : Live(r)

\* ------------------------------------------ the service on a fixed store
\* One-shot runs with any bounds over a store that does not change while
\* they run: any of the pool's events beside the fixed ones.
ResumeStores == { FixedEvents \cup S : S \in SUBSET EventPool }

InitResume ==
    /\ events \in ResumeStores
    /\ history \in InitHistories
    /\ alertLog = << >>
    /\ alertKeys = << >>
    /\ today = NumDays
    /\ pc = [i \in Inst |-> "idle"]
    /\ run = [i \in Inst |-> IdleRun]
    /\ done = [i \in Inst |-> NoDone]
    /\ runs = 0
    /\ dialect \in Dialects
    /\ calc = NoCalc
    /\ pipe = NoPipe
    /\ query = NoQuery

NextResume ==
    \/ \E i \in SeqInst : RunOnce(i, {})
    \/ \E i \in SeqInst : Fetch(i)
    \/ \E i \in SeqInst : ProcessWindow(i)
    \/ \E i \in SeqInst : Commit(i)
    \/ \E i \in SeqInst : Fail(i)

SpecResume == InitResume /\ [][NextResume]_vars

\* The upper bounds a run can have, given or defaulted.
RunUntils == { Until(untilArg) : untilArg \in UntilArgs }

\* The tables a completed run_once(until = U) with U before until leaves when
\* it starts from an empty history.
FirstRunTables(evs, until) ==
    { RunOnceResult({}, evs, None, U) : U \in { u \in RunUntils : u < until } }

\* Every eligible event observed before until is counted in the live record
\* of this engine for its (entity, UTC day): the record exists and its
\* event_count is at least the number of such events of that group.
SkipsNoEvent(hist, evs, until) ==
    \A e \in Eligible(evs, None, until) :
        \E r \in OwnRows(hist) :
            /\ Live(r)
            /\ KeyOf(r) = <<e.entity_id, Midnight(e.observed_at) + TicksPerDay>>
            /\ r.reason.event_count
                 >= Cardinality({ x \in Eligible(evs, None, until) :
                                    /\ x.entity_id = e.entity_id
                                    /\ DayOf(x.observed_at) = DayOf(e.observed_at) })

\* The second run, called without since, completes: by its commit or by the
\* return of 0 after its query, or by the return of 0 at the checkpoint test.
ResumeSkipsNothing ==
    \A i \in SeqInst :
        /\ (/\ Busy(i)
            /\ pc'[i] = "idle"
            /\ done'[i].outcome = "returned"
            /\ runs = 2
            /\ done[i].outcome = "returned"
            /\ run[i].sinceArg = None
            /\ run[i].histBefore \in FirstRunTables(events, run[i].until))
           => SkipsNoEvent(history', events, run[i].until)
        /\ (/\ pc[i] = "idle"
            /\ pc'[i] = "idle"
            /\ runs = 1
            /\ runs' = 2
            /\ done[i].outcome = "returned")
           => \A until \in RunUntils :
                 (/\ NothingToDo(get_latest_checkpoint(history), until)
                  /\ history \in FirstRunTables(events, until))
                 => SkipsNoEvent(history', events, until)

\* C35 as claimed: from an empty history, after run_once(until = U) and then
\* run_once(no since, until = U') with U' > U have both completed over an
\* unchanged store, every eligible event observed before U' is counted in
\* the committed record of its (entity, UTC day), for every U.
C35_ResumeSkipsNoEvent == [][ResumeSkipsNothing]_vars

\* ------------------------------------------ the daemon with default bounds
\* run_forever() with neither since nor until, on an empty risk history of
\* a PostgreSQL database, while the ingestion side keeps adding events; no
\* call of a run raises and nothing interrupts the loop.
InitDaemon ==
    /\ events = FixedEvents \cup { e \in EventPool : e.entity_id = 2 }
    /\ history = {}
    /\ alertLog = << >>
    /\ alertKeys = << >>
    /\ today = NumDays
    /\ pc = [i \in Inst |-> "idle"]
    /\ run = [i \in Inst |-> IdleRun]
    /\ done = [i \in Inst |-> NoDone]
    /\ runs = 0
    /\ dialect = "postgresql"
    /\ calc = NoCalc
    /\ pipe = NoPipe
    /\ query = NoQuery

\* run_forever(): the first run_once(since=None, until=None) of the loop.
DaemonStart(i) ==
    /\ pc[i] = "idle"
    /\ StartRun(i, TRUE, None, None)
    /\ UNCHANGED runs

\* The sleep is over and the loop calls run_once again, as often as it
\* takes.
DaemonLoop(i) ==
    /\ pc[i] = "sleeping"
    /\ StartRun(i, TRUE, run[i].sinceArg, run[i].untilArg)
    /\ UNCHANGED runs

\* The steps of the daemon itself.
DaemonStep ==
    \E i \in SeqInst :
        DaemonStart(i) \/ DaemonLoop(i) \/ Fetch(i) \/ ProcessWindow(i) \/ Commit(i)

NextDaemon ==
    \/ \E i \in SeqInst : DaemonStart(i)
    \/ \E i \in SeqInst : DaemonLoop(i)
    \/ \E i \in SeqInst : Fetch(i)
    \/ \E i \in SeqInst : ProcessWindow(i)
    \/ \E i \in SeqInst : Commit(i)
    \/ AddEvent

\* The loop is a running process: time.sleep returns and every call of the
\* run returns or raises, so the daemon always takes its next step; the
\* ingestion side is under no obligation.
SpecDaemon == InitDaemon /\ [][NextDaemon]_vars /\ WF_vars(DaemonStep)

\* Every eligible stored event observed before the start of the current UTC
\* day is counted in the live record of this engine for its (entity, UTC
\* day).
AllRolledUp == SkipsNoEvent(history, events, default_until(today))

\* C36 as claimed: with the daemon running on default bounds and no run
\* failing, there comes a point from which every eligible event observed
\* before the start of the current UTC day is counted in the committed
\* record of its (entity, UTC day), whenever it was ingested.
C36_EventuallyRolledUp == <>[]AllRolledUp

\* ------------------------------------------ one range, one run or two
\* The instants on a UTC day boundary that can bound a run.
DayAligned == { d * TicksPerDay : d \in 0 .. NumDays }

\* What two tables are compared by: the key and the score of every row, and
\* with them the baseline object of its reason.
ScoredRows(hist) == { <<KeyOf(r), r.deleted, r.risk_score>> : r \in hist }

BaselinedRows(hist, entities) ==
    { <<KeyOf(r), r.deleted, r.risk_score, r.reason.baseline>> :
        r \in { x \in hist : x.entity_id \in entities } }

\* The entities with an eligible event in [since, until).
EntitiesIn(evs, since, until) == { e.entity_id : e \in Eligible(evs, since, until) }

\* The entities with a window in both parts of the range.
Spanning(evs, a, b, c) == EntitiesIn(evs, a, b) \cap EntitiesIn(evs, b, c)

\* run_once(since = b, until = c) completes, by its commit or by the return
\* of 0 after its query, for day-aligned b < c.
SecondPartEnds(i) ==
    /\ Busy(i)
    /\ pc'[i] = "idle"
    /\ done'[i].outcome = "returned"
    /\ run[i].sinceArg \in DayAligned
    /\ run[i].until \in DayAligned

\* The table the run over [b, c) leaves, when it began on the table that
\* run_once over [a, b) leaves of h0, agrees with the table run_once over
\* [a, c) leaves of h0.
SplitAgrees(agree(_, _, _, _, _)) ==
    \A i \in SeqInst :
        SecondPartEnds(i) =>
            \A h0 \in InitHistories : \A a \in DayAligned :
                (/\ a < run[i].sinceArg
                 /\ run[i].histBefore = RunOnceResult(h0, events, a, run[i].sinceArg))
                => agree(history', RunOnceResult(h0, events, a, run[i].until),
                         a, run[i].sinceArg, run[i].until)

AgreeInAll(split, single, a, b, c) ==
    /\ ScoredRows(split) = ScoredRows(single)
    /\ BaselinedRows(split, Entities) = BaselinedRows(single, Entities)

AgreeButSpanning(split, single, a, b, c) ==
    /\ ScoredRows(split) = ScoredRows(single)
    /\ BaselinedRows(split, Entities \ Spanning(events, a, b, c))
         = BaselinedRows(single, Entities \ Spanning(events, a, b, c))

SplitAgreesInAll == SplitAgrees(AgreeInAll)

SplitAgreesButSpanning == SplitAgrees(AgreeButSpanning)

\* C37 as claimed: for day-aligned a < b < c, run_once over [a, b) followed
\* by run_once over [b, c) leaves the same records as one run_once over
\* [a, c): the same keys and risk scores, and the same baseline avg, sigma,
\* delta and is_anomalous in every record.
C37_SplitIndependent == [][SplitAgreesInAll]_vars

\* C37, amended: the two ways leave the same keys and risk scores, and the
\* same baseline avg, sigma, delta and is_anomalous in the records of every
\* entity that has no window in [a, b) or none in [b, c).
C37_SplitIndependentButSpanning == [][SplitAgreesButSpanning]_vars

\* The run over the second day is about to commit on the table the run over
\* the first day left: entity 1 has a window in both parts and its second
\* record differs in its baseline from the one a single run writes, while
\* entity 2 has a window in the second part only.
C37_Witness ==
    /\ pc[1] = "process"
    /\ run[1].idx > Len(run[1].windows)
    /\ run[1].sinceArg = TicksPerDay
    /\ run[1].until = 2 * TicksPerDay
    /\ history = run[1].histBefore
    /\ history = RunOnceResult({}, events, 0, TicksPerDay)
    /\ history # {}
    /\ Spanning(events, 0, TicksPerDay, 2 * TicksPerDay) = {1}
    /\ 2 \in EntitiesIn(events, TicksPerDay, 2 * TicksPerDay)
    /\ LET split == SessionCommit(history, run[1].session)
           single == RunOnceResult({}, events, 0, 2 * TicksPerDay)
       IN  /\ AgreeButSpanning(split, single, 0, TicksPerDay, 2 * TicksPerDay)
           /\ ~AgreeInAll(split, single, 0, TicksPerDay, 2 * TicksPerDay)

RowsKept ==
    \A r \in history :
        \E r2 \in history' :
            /\ r2.id = r.id
            /\ r2.entity_id = r.entity_id
            /\ r2.observed_at = r.observed_at
            /\ r2.deleted = r.deleted
            /\ r.deleted => r2 = r
            /\ r2 # r =>
                 /\ r \in _find_history(history, r.entity_id, r.observed_at)
                 /\ r2.reason.generator = REASON_GENERATOR
                 /\ r2.reason.window_end = r.observed_at

\* Every other row of the table after the step is a live row this engine
\* inserted under a new id.
RowsInserted ==
    \A r2 \in history' :
        \/ \E r \in history : r.id = r2.id
        \/ /\ Live(r2)
           /\ r2.reason.generator = REASON_GENERATOR
           /\ r2.reason.window_end = r2.observed_at

\* C39: no step of a run removes a row of entity_risk_history, changes the
\* entity id or observed_at of an existing row, or modifies a soft-deleted
\* row; a step only inserts rows and overwrites the risk score and reason of
\* the live row with the key of a processed window.
C39_HistoryNeverDestroyed == [][RowsKept /\ RowsInserted]_vars

\* A run is about to commit an overwrite of a live row together with a new
\* row under the key of a soft-deleted one.
C39_Witness ==
    /\ pc[1] = "process"
    /\ run[1].idx > Len(run[1].windows)
    /\ \E u \in run[1].session.updates :
          \E r \in history : r.id = u.id /\ Live(r) /\ r.risk_score # u.risk_score
    /\ \E k \in 1 .. Len(run[1].session.adds) :
          \E r \in history : r.deleted /\ KeyOf(r) = KeyOf(run[1].session.adds[k])

====
